---------------------------- MODULE Spec2Model ----------------------------
(***************************************************************************)
(* A model of the piet-wgpu rendering backend.                             *)
(*                                                                         *)
(*  - the render context of src/src/context.rs: the save/restore state     *)
(*    machine (cur_transform, state_stack, clip_stack), the primitives     *)
(*    list, the depth counter and the layer buckets;                       *)
(*  - the glyph atlas caches of src/src/text.rs, src/src/pipeline.rs and   *)
(*    src/src/text_pipeline.rs: glyph resolution and shelf placement;      *)
(*  - the frame submission of finish() and Layer::draw, and what the GPU   *)
(*    composites from its draw calls at sample pixels;                     *)
(*  - the icon store of src/src/svg.rs and the GPU buffers of the          *)
(*    pipelines of src/src/triangle.rs, text.rs, blur_quad.rs, pipeline.rs.*)
(*                                                                         *)
(* Coordinates are integers.  Every coordinate the model produces is an    *)
(* integer of magnitude far below 2^24, where the f64 -> f32 casts of the  *)
(* source are exact.                                                       *)
(***************************************************************************)
EXTENDS Integers, Sequences, FiniteSets, TLC

VARIABLES
    \* ---- WgpuRenderContext (context.rs 21-33)
    cur_transform,   \* Affine, the six coefficients <<a, b, c, d, e, f>>
    state_stack,     \* Vec<State>
    clip_stack,      \* Vec<[f32; 4]>
    primitives,      \* Vec<Primitive>
    depth,           \* u32
    layer,           \* Layer
    ret,             \* the last call on the context and what it returned
    \* ---- history of the context, for the claims about matching save/restore
    saved,           \* per open frame: cur_transform and clip_stack before its save
    base_clips,      \* number of clip rectangles pushed while no frame was open
    \* ---- the GPU, as the context drives it
    submitted,       \* the frames submitted by finish(), each a list of draw calls
    gl_state,        \* the GL state: blending, blend source factor, depth mask, depth test
    gl_log,          \* the GL state at each pipeline draw of the last finish()
    \* ---- Cache, the glyph atlas (text.rs 177-198, pipeline.rs 451-469,
    \*      text_pipeline.rs 289-303)
    cache_impl,      \* which Cache this is: "text", "pipeline" or "text_pipeline"
    scale,           \* Cache::scale
    fonts,           \* Cache::fonts, the loaded fonts by font id (0-based ids)
    piet_fonts,      \* Cache::piet_fonts (text.rs only)
    font_families,   \* Cache::font_families / font_ids: family -> font id
    fallback,        \* fallback_fonts_loaded and fallback_fonts_range
    glyph_infos,     \* Cache::glyph_infos: <<char, family>> -> <<font id, glyph id>>
    rows,            \* Cache::rows, in insertion order; row number i is rows[i + 1]
    glyphs,          \* Cache::glyphs: GlyphInfo -> <<row number, index in the row>>
    cache_ret,       \* the last get_glyph_pos call and what it returned
    panicked,        \* the thread has panicked
    \* ---- history of the cache
    rasterized,      \* GlyphInfo -> number of times the glyph was rasterized
    alloc,           \* GlyphInfo -> the pixel slot allocated to it
    lookups,         \* number of get_glyph_pos calls so far
    \* ---- SvgStore (svg.rs 53-57)
    svgs,            \* SvgStore::svgs: content hash -> SvgData
    svg_ret,         \* the last get_svg_data call and the SvgData it returned
    \* ---- history of the store
    tessellated,     \* content hash -> number of times new_svg_data built its mesh
    svg_calls,       \* number of get_svg_data calls so far
    \* ---- the GPU buffers of the pipelines (triangle.rs 161-168, text.rs 30-39,
    \*      blur_quad.rs, pipeline.rs 96-110)
    buffers,         \* the capacity of each buffer, in elements
    upload,          \* the buffer writes of the last draw of a pipeline
    \* ---- PathConvIter (svg.rs 154-160)
    path_iter,       \* the iterator: the path's segments, the position in them
                     \* and the fields prev, first, needs_end, deferred
    path_ret,        \* what the last call of next() returned
    \* ---- history of the iterator
    path_events,     \* the events next() has returned so far
    \* ---- WgpuTextLayout::rebuild in monospace layout (text_layout.rs 88-207)
    mono_layout,     \* tab_width, mono_char_widths and the characters laid out
    layout_ret       \* the last character laid out and its char_width

ctx_vars == <<cur_transform, state_stack, clip_stack, primitives, depth, layer,
              ret, saved, base_clips>>

gpu_vars == <<submitted, gl_state, gl_log>>

cache_vars == <<cache_impl, scale, fonts, piet_fonts, font_families, fallback,
                glyph_infos, rows, glyphs, cache_ret, panicked, rasterized, alloc,
                lookups>>

path_vars == <<path_iter, path_ret, path_events>>

layout_vars == <<mono_layout, layout_ret>>

renderer_vars == <<svgs, svg_ret, tessellated, svg_calls, buffers, upload, path_vars,
                   layout_vars>>

-----------------------------------------------------------------------------
(* Bounds of the model *)

\* Width and height of the atlas texture handed to Cache::new.
AtlasWidth == 45
AtlasHeight == 73
\* Largest number of characters of a text handed to rebuild.
MaxText == 4
\* Largest number of segments of a path handed to convert_path.
MaxSegs == 3
\* Largest number of get_glyph_pos calls.
MaxLookups == 3

\* Largest magnitude of a coefficient of cur_transform.
MaxCoord == 40
\* Largest amount recorded in a context: the primitives added after the
\* first, plus the draw calls counted by depth, plus the open save frames,
\* plus the text and icon instances, plus the frames submitted.
MaxRecorded == 4
\* Largest number of finish() calls on one context.
MaxFrames == 2
\* Largest number of get_svg_data calls on one store.
MaxSvgCalls == 4
\* Largest number of elements in the buckets of a layer driven directly.
MaxLayerItems == 3

-----------------------------------------------------------------------------
(* kurbo geometry used by the context *)

Max(a, b) == IF a >= b THEN a ELSE b
Min(a, b) == IF a <= b THEN a ELSE b
Abs(a) == IF a >= 0 THEN a ELSE -a

Last(s) == s[Len(s)]
Front(s) == SubSeq(s, 1, Len(s) - 1)

\* Affine::default(): the identity.
AffineIdentity == <<1, 0, 0, 1, 0, 0>>

\* `a *= b` on Affine: a := a * b.
AffineMul(a, b) ==
    << a[1] * b[1] + a[3] * b[2],
       a[2] * b[1] + a[4] * b[2],
       a[1] * b[3] + a[3] * b[4],
       a[2] * b[3] + a[4] * b[4],
       a[1] * b[5] + a[3] * b[6] + a[5],
       a[2] * b[5] + a[4] * b[6] + a[6] >>

\* `rect + Vec2::new(affine[4], affine[5])`: only the translation part of the
\* transform is applied to a rectangle.
RectTranslate(r, affine) ==
    << r[1] + affine[5], r[2] + affine[6], r[3] + affine[5], r[4] + affine[6] >>

\* Rect::intersect.
RectIntersect(r, o) ==
    LET x0 == Max(r[1], o[1])
        y0 == Max(r[2], o[2])
        x1 == Min(r[3], o[3])
        y1 == Min(r[4], o[4])
    IN  << x0, y0, Max(x1, x0), Max(y1, y0) >>

\* Rect::inflate.
RectInflate(r, w, h) == << r[1] - w, r[2] - h, r[3] + w, r[4] + h >>

-----------------------------------------------------------------------------
(* Inputs of the context's operations *)

\* A shape is a rectangle (Shape::as_rect is Some) or a path that is none.
RectShape(x0, y0, x1, y1) == [kind |-> "rect", rect |-> <<x0, y0, x1, y1>>]
PathShape == [kind |-> "path", rect |-> <<0, 0, 6, 6>>]

\* Shapes handed to clip(): a rectangle and a path.
ClipShapes == { RectShape(2, 2, 12, 12), PathShape }

\* Shapes handed to fill(), to stroke() and to blurred_rect().
DrawShapes == { RectShape(0, 0, 5, 5), PathShape }
StrokeShapes == { RectShape(0, 0, 5, 5) }
BlurShapes == { RectShape(0, 0, 5, 5) }

\* Transforms handed to transform(): a translation and a scaling.
Transforms == { <<1, 0, 0, 1, 10, 0>>, <<2, 0, 0, 2, 0, 0>> }

\* Colours <<r, g, b, a>> in percent: opaque red and half transparent blue.
Colors == { <<100, 0, 0, 100>>, <<0, 0, 100, 50>> }

\* Colours handed to blurred_rect().
BlurColors == { <<0, 0, 100, 50>> }

\* Stroke widths handed to stroke().
Widths == { 2 }

\* Blur radii handed to blurred_rect().
Radii == { 1 }

\* Text layouts handed to draw_text(): the instances rebuild() left in the
\* layout, with depth 0.0 and clip [0, 0, 0, 0] (text_layout.rs 184-202).
\* One layout has no instance, one has one glyph.
LayoutInstance ==
    [rect |-> <<0, 0, 4, 4>>, tex_rect |-> <<0, 0, 1, 1>>, color |-> <<0, 0, 0, 100>>,
     depth |-> 0, clip |-> <<0, 0, 0, 0>>]
TextLayouts == { <<>>, << LayoutInstance >> }

\* Positions handed to draw_text().
TextPositions == { <<1, 1>> }

\* Positions handed to draw_text() where one layout is drawn at two places.
LayoutPositions == { <<1, 1>>, <<3, 2>> }

\* Destination rectangles and colour overrides handed to draw_svg(); None is
\* no override.
SvgRects == { <<0, 0, 4, 4>> }
SvgColors == { "None" }

\* The stroke tessellator is an external library, deterministic per input:
\* for a shape it yields points on the path with their normals, and triangle
\* indices into them.  The model takes two opposite corners of the shape's
\* bounding rectangle and one (degenerate) triangle.
StrokeTessellate(shape) ==
    [ points  |-> << [position |-> <<shape.rect[1], shape.rect[2]>>, normal |-> <<-1, -1>>],
                     [position |-> <<shape.rect[3], shape.rect[4]>>, normal |-> <<1, 1>>] >>,
      indices |-> <<0, 1, 0>> ]

-----------------------------------------------------------------------------
(* Layer (context.rs 36-45, 97-155) *)

EmptyBuffers == [vertices |-> <<>>, indices |-> <<>>]

\* Layer::new
LayerNew ==
    [ quads                 |-> <<>>,
      transparent_quads     |-> <<>>,
      blurred_quads         |-> <<>>,
      triangles             |-> EmptyBuffers,
      transparent_triangles |-> EmptyBuffers,
      texts                 |-> <<>>,
      color_texts           |-> <<>>,
      svgs                  |-> <<>> ]

\* Mutant of LayerAddQuad: the test on alpha is inverted.
LayerAddQuad_Inverted(l, rect, color, d, clip) ==
    LET quad == [rect |-> rect, color |-> color, depth |-> d, clip |-> clip]
    IN  IF color[4] < 100
        THEN [l EXCEPT !.quads = Append(@, quad)]
        ELSE [l EXCEPT !.transparent_quads = Append(@, quad)]

\* Layer::add_quad: the transparent bucket when alpha < 1.0, else the opaque one.
LayerAddQuad(l, rect, color, d, clip) ==
    LET quad == [rect |-> rect, color |-> color, depth |-> d, clip |-> clip]
    IN  IF color[4] < 100
        THEN [l EXCEPT !.transparent_quads = Append(@, quad)]
        ELSE [l EXCEPT !.quads = Append(@, quad)]

\* Layer::add_blurred_quad
LayerAddBlurredQuad(l, rect, blur_rect, blur_radius, color, d, clip) ==
    [l EXCEPT !.blurred_quads =
        Append(@, [rect |-> rect, blur_rect |-> blur_rect, blur_radius |-> blur_radius,
                   color |-> color, depth |-> d, clip |-> clip])]

\* Layer::add_text, Layer::add_color_text, Layer::add_svg
LayerAddText(l, text) == [l EXCEPT !.texts = @ \o text]
LayerAddColorText(l, text) == [l EXCEPT !.color_texts = @ \o text]
LayerAddSvg(l, svg) == [l EXCEPT !.svgs = Append(@, svg)]

\* Layer::reset: the buckets it clears; color_texts and svgs are not among
\* them.
LayerReset(l) ==
    [l EXCEPT !.quads = <<>>,
              !.blurred_quads = <<>>,
              !.triangles = EmptyBuffers,
              !.transparent_quads = <<>>,
              !.transparent_triangles = EmptyBuffers,
              !.texts = <<>>]

\* BuffersBuilder over a VertexBuffers: the vertices built by the closure are
\* appended, the indices are appended offset by the vertices already there.
BuffersAppend(buf, verts, idx) ==
    [ vertices |-> buf.vertices \o verts,
      indices  |-> buf.indices \o [i \in 1..Len(idx) |-> idx[i] + Len(buf.vertices)] ]

-----------------------------------------------------------------------------
(* WgpuRenderContext (context.rs 263-381, 390-698) *)

\* get_current_clip / current_clip: the top of clip_stack, else [0,0,0,0].
NoClip == <<0, 0, 0, 0>>
CurrentClip(cs) == IF cs = <<>> THEN NoClip ELSE Last(cs)

\* add_primitive: a Primitive with the translation of cur_transform and the
\* current clip.
NewPrimitive(t, cs) ==
    [translate |-> <<t[5], t[6]>>, clip |-> 1, clip_rect |-> CurrentClip(cs)]

\* State pushed by save().
SaveState(t) == [rel_transform |-> AffineIdentity, transform |-> t, n_clip |-> 0]

\* Mutant of CountClip: the clip is not counted in the top frame.
CountClip_Uncounted(ss) == ss

\* add_clip_rect on state_stack: the top frame, if any, counts the clip.
CountClip(ss) ==
    IF ss = <<>> THEN ss
    ELSE [ss EXCEPT ![Len(ss)].n_clip = @ + 1]

\* clip_override: the rectangle pushed for a rectangular shape.
ClipOverrideRect(shape, t) == RectTranslate(shape.rect, t)

\* clip_nested: the rectangle pushed for a rectangular shape: intersected
\* with the active clip, if there is one.
ClipNestedRect(shape, t, cs) ==
    IF cs # <<>>
    THEN RectIntersect(RectTranslate(shape.rect, t), Last(cs))
    ELSE ClipOverrideRect(shape, t)

\* Mutant of PopClips: the loop runs 0..=n_clip, one pop too many.
PopClips_OneMore(cs, n) == SubSeq(cs, 1, Max(Len(cs) - (n + 1), 0))

\* restore: the clip stack after n_clip calls of pop_clip (Vec::pop on an
\* empty vector does nothing).
PopClips(cs, n) == SubSeq(cs, 1, Max(Len(cs) - n, 0))

\* Mutant of RestoredTransform: the frame's transform composed with its
\* relative transform, which is the transform in effect before the restore.
RestoredTransform_Composed(state) == AffineMul(state.transform, state.rel_transform)

\* restore: the transform restored from the popped frame.
RestoredTransform(state) == state.transform

InBounds(t) == \A i \in 1..6 : Abs(t[i]) <= MaxCoord

Recorded == (Len(primitives) - 1) + depth + Len(state_stack)
              + Len(layer.texts) + Len(layer.svgs) + Len(submitted)
CanRecord == Recorded < MaxRecorded

CtxInit ==
    /\ cur_transform = AffineIdentity
    /\ state_stack = <<>>
    /\ clip_stack = <<>>
    /\ primitives = << NewPrimitive(AffineIdentity, <<>>) >>
    /\ depth = 0
    /\ layer = LayerNew
    /\ ret = [op |-> "new", res |-> "Ok"]
    /\ saved = <<>>
    /\ base_clips = 0

\* save()
Save ==
    /\ CanRecord
    /\ state_stack' = Append(state_stack, SaveState(cur_transform))
    /\ saved' = Append(saved, [transform |-> cur_transform, clips |-> clip_stack])
    /\ ret' = [op |-> "save", res |-> "Ok"]
    /\ UNCHANGED <<cur_transform, clip_stack, primitives, depth, layer, base_clips>>

\* restore() with a frame to pop
RestoreOk ==
    /\ state_stack # <<>>
    /\ LET state == Last(state_stack)
           cs    == PopClips(clip_stack, state.n_clip)
           t     == RestoredTransform(state)
       IN  /\ state_stack' = Front(state_stack)
           /\ cur_transform' = t
           /\ clip_stack' = cs
           /\ primitives' = Append(primitives, NewPrimitive(t, cs))
    /\ saved' = Front(saved)
    /\ ret' = [op |-> "restore", res |-> "Ok"]
    /\ UNCHANGED <<depth, layer, base_clips>>

\* restore() on an empty state_stack
RestoreUnbalanced ==
    /\ state_stack = <<>>
    /\ ret' = [op |-> "restore", res |-> "StackUnbalance"]
    /\ UNCHANGED <<cur_transform, state_stack, clip_stack, primitives, depth, layer,
                   saved, base_clips>>

\* Mutant of Restore: an empty state_stack is taken for a default frame,
\* the call returns Ok and resets the transform.
Restore_DefaultFrame ==
    \/ RestoreOk
    \/ /\ state_stack = <<>>
       /\ cur_transform' = AffineIdentity
       /\ ret' = [op |-> "restore", res |-> "Ok"]
       /\ UNCHANGED <<state_stack, clip_stack, primitives, depth, layer, saved, base_clips>>

\* restore()
Restore == RestoreOk \/ RestoreUnbalanced

\* Mutant of Transform: the top frame's rel_transform is left as it is.
Transform_NoRel(t) ==
    /\ InBounds(AffineMul(cur_transform, t))
    /\ CanRecord
    /\ cur_transform' = AffineMul(cur_transform, t)
    /\ primitives' = Append(primitives, NewPrimitive(cur_transform', clip_stack))
    /\ ret' = [op |-> "transform", res |-> "Ok"]
    /\ UNCHANGED <<state_stack, clip_stack, depth, layer, saved, base_clips>>

\* transform(t)
Transform(t) ==
    /\ InBounds(AffineMul(cur_transform, t))
    /\ CanRecord
    /\ state_stack' =
         IF state_stack = <<>> THEN state_stack
         ELSE [state_stack EXCEPT ![Len(state_stack)].rel_transform = AffineMul(@, t)]
    /\ cur_transform' = AffineMul(cur_transform, t)
    /\ primitives' = Append(primitives, NewPrimitive(cur_transform', clip_stack))
    /\ ret' = [op |-> "transform", res |-> "Ok"]
    /\ UNCHANGED <<clip_stack, depth, layer, saved, base_clips>>

\* clip(shape) = clip_nested(shape): a rectangle is pushed (add_clip_rect),
\* any other shape is not tracked.
Clip(shape) ==
    /\ ret' = [op |-> "clip", res |-> "Ok"]
    /\ IF shape.kind = "rect"
       THEN /\ CanRecord
            /\ clip_stack' = Append(clip_stack, ClipNestedRect(shape, cur_transform, clip_stack))
            /\ state_stack' = CountClip(state_stack)
            /\ primitives' = Append(primitives, NewPrimitive(cur_transform, clip_stack'))
            /\ base_clips' = IF state_stack = <<>> THEN base_clips + 1 ELSE base_clips
       ELSE UNCHANGED <<clip_stack, state_stack, primitives, base_clips>>
    /\ UNCHANGED <<cur_transform, depth, layer, saved>>

\* The closures handed to with_save(): the calls the closure makes on the
\* context, and what it returns.  transform is called with a translation,
\* clip with a rectangle; the last closure pops a frame it did not push.
WithSaveTransform == <<1, 0, 0, 1, 10, 0>>
WithSaveClip == RectShape(2, 2, 12, 12)
WithSaveBodies ==
    { [ops |-> <<>>, res |-> "Ok"],
      [ops |-> << "transform", "clip" >>, res |-> "Ok"],
      [ops |-> << "clip" >>, res |-> "Err"],
      [ops |-> << "restore" >>, res |-> "Ok"] }

\* The fields of the context that save, restore, transform and clip work on.
CtxOf(t, ss, cs, ps) ==
    [cur_transform |-> t, state_stack |-> ss, clip_stack |-> cs, primitives |-> ps]

\* restore() on such a context, with its result.
CtxRestore(c) ==
    IF c.state_stack = <<>> THEN [ctx |-> c, res |-> "StackUnbalance"]
    ELSE LET state == Last(c.state_stack)
             cs    == PopClips(c.clip_stack, state.n_clip)
             t     == RestoredTransform(state)
         IN  [ctx |-> CtxOf(t, Front(c.state_stack), cs,
                            Append(c.primitives, NewPrimitive(t, cs))),
              res |-> "Ok"]

\* A call the closure makes: transform(t), clip(rect) or restore().
CtxCall(c, op) ==
    CASE op = "transform" ->
            LET t == AffineMul(c.cur_transform, WithSaveTransform)
            IN  CtxOf(t,
                      IF c.state_stack = <<>> THEN c.state_stack
                      ELSE [c.state_stack EXCEPT ![Len(c.state_stack)].rel_transform =
                              AffineMul(@, WithSaveTransform)],
                      c.clip_stack,
                      Append(c.primitives, NewPrimitive(t, c.clip_stack)))
      [] op = "clip" ->
            LET cs == Append(c.clip_stack,
                             ClipNestedRect(WithSaveClip, c.cur_transform, c.clip_stack))
            IN  CtxOf(c.cur_transform, CountClip(c.state_stack), cs,
                      Append(c.primitives, NewPrimitive(c.cur_transform, cs)))
      [] op = "restore" -> CtxRestore(c).ctx

RECURSIVE CtxCalls(_, _)
CtxCalls(c, ops) ==
    IF ops = <<>> THEN c ELSE CtxCalls(CtxCall(c, ops[1]), SubSeq(ops, 2, Len(ops)))

\* Mutant of WithSaveEnd: restore is not called when the closure failed.
WithSaveEnd_SkipOnErr(c, fres) ==
    IF fres # "Ok" THEN [ctx |-> c, res |-> fres] ELSE CtxRestore(c)

\* `f(self).and(self.restore())`: restore is called whatever f returned; the
\* result is f's error, else the result of restore.
WithSaveEnd(c, fres) ==
    LET r == CtxRestore(c)
    IN  [ctx |-> r.ctx, res |-> IF fres # "Ok" THEN fres ELSE r.res]

\* with_save(f)
WithSave(f) ==
    /\ Recorded + Len(f.ops) + 1 <= MaxRecorded
    /\ InBounds(AffineMul(cur_transform, WithSaveTransform))
    /\ LET c0  == CtxOf(cur_transform, Append(state_stack, SaveState(cur_transform)),
                        clip_stack, primitives)
           end == WithSaveEnd(CtxCalls(c0, f.ops), f.res)
       IN  /\ cur_transform' = end.ctx.cur_transform
           /\ state_stack' = end.ctx.state_stack
           /\ clip_stack' = end.ctx.clip_stack
           /\ primitives' = end.ctx.primitives
           /\ saved' =
                IF Len(end.ctx.state_stack) <= Len(saved)
                THEN SubSeq(saved, 1, Len(end.ctx.state_stack))
                ELSE Append(saved, [transform |-> cur_transform, clips |-> clip_stack])
           /\ ret' = [op |-> "with_save", res |-> end.res, f |-> f]
    /\ UNCHANGED <<depth, layer, base_clips>>

\* Mutant of Fill: the quad records the depth before the increment.
Fill_IncrementAfter(shape, color) ==
    /\ CanRecord
    /\ depth' = depth + 1
    /\ layer' =
         IF shape.kind = "rect"
         THEN LayerAddQuad(layer, RectTranslate(shape.rect, cur_transform), color,
                           depth, CurrentClip(clip_stack))
         ELSE layer
    /\ ret' = [op |-> "fill", res |-> "Ok"]
    /\ UNCHANGED <<cur_transform, state_stack, clip_stack, primitives, saved, base_clips>>

\* fill(shape, brush): only a rectangle records a quad.
Fill(shape, color) ==
    /\ CanRecord
    /\ depth' = depth + 1
    /\ layer' =
         IF shape.kind = "rect"
         THEN LayerAddQuad(layer, RectTranslate(shape.rect, cur_transform), color,
                           depth', CurrentClip(clip_stack))
         ELSE layer
    /\ ret' = [op |-> "fill", res |-> "Ok"]
    /\ UNCHANGED <<cur_transform, state_stack, clip_stack, primitives, saved, base_clips>>

\* fill_even_odd(shape, brush): the body is empty.
FillEvenOdd(shape, color) ==
    /\ ret' = [op |-> "fill_even_odd", res |-> "Ok"]
    /\ UNCHANGED <<cur_transform, state_stack, clip_stack, primitives, saved, base_clips,
                   depth, layer>>

\* stroke(shape, brush, width): the tessellated stroke goes to the
\* transparent triangles when alpha < 1.0, else to the opaque ones.
StrokeVertices(shape, color, width, d, clip, t) ==
    LET pts == StrokeTessellate(shape).points
    IN  [ i \in 1..Len(pts) |->
            [ pos   |-> << pts[i].position[1] + (pts[i].normal[1] * width) \div 2 + t[5],
                           pts[i].position[2] + (pts[i].normal[2] * width) \div 2 + t[6] >>,
              color |-> color,
              depth |-> d,
              clip  |-> clip ] ]

Stroke(shape, color, width) ==
    /\ CanRecord
    /\ depth' = depth + 1
    /\ LET verts == StrokeVertices(shape, color, width, depth', CurrentClip(clip_stack),
                                   cur_transform)
           idx   == StrokeTessellate(shape).indices
       IN  layer' =
             IF color[4] < 100
             THEN [layer EXCEPT !.transparent_triangles = BuffersAppend(@, verts, idx)]
             ELSE [layer EXCEPT !.triangles = BuffersAppend(@, verts, idx)]
    /\ ret' = [op |-> "stroke", res |-> "Ok"]
    /\ UNCHANGED <<cur_transform, state_stack, clip_stack, primitives, saved, base_clips>>

\* Mutant of BlurredRect: the quad takes the next depth and the counter is
\* left as it was.
BlurredRect_NoIncrement(shape, radius, color) ==
    /\ shape.kind = "rect"
    /\ CanRecord
    /\ Len(layer.blurred_quads) < MaxRecorded
    /\ LET rect      == RectInflate(RectTranslate(shape.rect, cur_transform),
                                    3 * radius, 3 * radius)
           blur_rect == RectInflate(rect, -3 * radius, -3 * radius)
       IN  layer' = LayerAddBlurredQuad(layer, rect, blur_rect, radius, color, depth + 1,
                                        CurrentClip(clip_stack))
    /\ ret' = [op |-> "blurred_rect", res |-> "Ok"]
    /\ UNCHANGED <<cur_transform, state_stack, clip_stack, primitives, saved, base_clips,
                   depth>>

\* blurred_rect(rect, blur_radius, brush)
BlurredRect(shape, radius, color) ==
    /\ shape.kind = "rect"
    /\ CanRecord
    /\ depth' = depth + 1
    /\ LET rect      == RectInflate(RectTranslate(shape.rect, cur_transform),
                                    3 * radius, 3 * radius)
           blur_rect == RectInflate(rect, -3 * radius, -3 * radius)
       IN  layer' = LayerAddBlurredQuad(layer, rect, blur_rect, radius, color, depth',
                                        CurrentClip(clip_stack))
    /\ ret' = [op |-> "blurred_rect", res |-> "Ok"]
    /\ UNCHANGED <<cur_transform, state_stack, clip_stack, primitives, saved, base_clips>>

\* The icon atlas of the renderer (svg_store.cache.get_svg) returns the
\* icon's rectangle in the atlas texture, or an error.
SvgResults == { [ok |-> TRUE, cache_rect |-> <<0, 0, 1, 1>>],
                [ok |-> FALSE, cache_rect |-> <<0, 0, 0, 0>>] }

\* draw_svg(svg, rect, override_color): an icon instance at the current
\* depth, when the icon atlas has the icon; nothing otherwise.
DrawSvg(found, rect, override_color) ==
    /\ CanRecord
    /\ layer' =
         IF found.ok
         THEN [layer EXCEPT !.svgs =
                 Append(@, [rect     |-> RectTranslate(rect, cur_transform),
                            tex_rect |-> found.cache_rect,
                            color    |-> IF override_color = "None"
                                         THEN <<0, 0, 0, 0>> ELSE override_color,
                            depth    |-> depth,
                            clip     |-> CurrentClip(clip_stack)])]
         ELSE layer
    /\ ret' = [op |-> "draw_svg", res |-> IF found.ok THEN "Ok" ELSE "Err"]
    /\ UNCHANGED <<cur_transform, state_stack, clip_stack, primitives, depth, saved,
                   base_clips>>

\* Mutant of TextInstances: the instances are recorded where the layout has
\* them.
TextInstances_Unmoved(layout, pos, t, d, clip) ==
    [ i \in 1..Len(layout) |->
        [ rect     |-> layout[i].rect,
          tex_rect |-> layout[i].tex_rect,
          color    |-> layout[i].color,
          depth    |-> d,
          clip     |-> clip ] ]

\* WgpuTextLayout::draw_text: the layout's instances, moved by the position
\* and the translation of cur_transform, at the current depth and clip.
TextInstances(layout, pos, t, d, clip) ==
    [ i \in 1..Len(layout) |->
        [ rect     |-> << layout[i].rect[1] + pos[1] + t[5],
                          layout[i].rect[2] + pos[2] + t[6],
                          layout[i].rect[3] + pos[1] + t[5],
                          layout[i].rect[4] + pos[2] + t[6] >>,
          tex_rect |-> layout[i].tex_rect,
          color    |-> layout[i].color,
          depth    |-> d,
          clip     |-> clip ] ]

\* draw_text(layout, pos)
DrawText(layout, pos) ==
    /\ CanRecord
    /\ layer' =
         IF layout = <<>> THEN layer
         ELSE [layer EXCEPT !.texts =
                 @ \o TextInstances(layout, pos, cur_transform, depth,
                                    CurrentClip(clip_stack))]
    /\ ret' = [op |-> "draw_text", res |-> "Ok"]
    /\ UNCHANGED <<cur_transform, state_stack, clip_stack, primitives, depth, saved,
                   base_clips>>

-----------------------------------------------------------------------------
(* Layer::draw and finish (context.rs 157-249, 589-603) *)

\* The passes of Layer::draw in the order of its draw calls, each with the
\* GL state set before it: blending, the blend function's source factor and
\* the depth mask.
Passes ==
    << [bucket |-> "quads", blend |-> FALSE, src |-> "SRC_ALPHA", depth_mask |-> TRUE],
       [bucket |-> "triangles", blend |-> FALSE, src |-> "SRC_ALPHA", depth_mask |-> TRUE],
       [bucket |-> "texts", blend |-> TRUE, src |-> "SRC1_COLOR", depth_mask |-> FALSE],
       [bucket |-> "svgs", blend |-> TRUE, src |-> "SRC_ALPHA", depth_mask |-> FALSE],
       [bucket |-> "color_texts", blend |-> TRUE, src |-> "SRC_ALPHA", depth_mask |-> FALSE],
       [bucket |-> "transparent_quads", blend |-> TRUE, src |-> "SRC_ALPHA",
        depth_mask |-> FALSE],
       [bucket |-> "blurred_quads", blend |-> TRUE, src |-> "SRC_ALPHA",
        depth_mask |-> FALSE],
       [bucket |-> "transparent_triangles", blend |-> TRUE, src |-> "SRC_ALPHA",
        depth_mask |-> FALSE] >>

\* What a pipeline's draw is handed for a bucket of the layer.
BucketOf(l, bucket) ==
    CASE bucket = "quads"                 -> l.quads
      [] bucket = "triangles"             -> l.triangles
      [] bucket = "texts"                 -> l.texts
      [] bucket = "svgs"                  -> l.svgs
      [] bucket = "color_texts"           -> l.color_texts
      [] bucket = "transparent_quads"     -> l.transparent_quads
      [] bucket = "blurred_quads"         -> l.blurred_quads
      [] bucket = "transparent_triangles" -> l.transparent_triangles

\* The draw of the quad pipeline issues a draw call unless it is handed no
\* instance.
QuadPipelineDraws(instances) == instances # <<>>

\* Pipeline::draw of the instance pipelines (text.rs 89-91, blur_quad.rs
\* 68-70): `if instances.is_empty() { return; }`.
InstancePipelineDraws(instances) == instances # <<>>

\* triangle.rs 114-116: `if triangles.vertices.is_empty() { return; }`.
TrianglePipelineDraws(triangles) == triangles.vertices # <<>>

\* A pass issues a draw call.
PassDraws(l, bucket) ==
    CASE bucket \in { "quads", "transparent_quads" } ->
            QuadPipelineDraws(BucketOf(l, bucket))
      [] bucket \in { "triangles", "transparent_triangles" } ->
            TrianglePipelineDraws(BucketOf(l, bucket))
      [] OTHER -> InstancePipelineDraws(BucketOf(l, bucket))

\* Mutant of LayerDraw: the transparent quads are drawn right after the
\* opaque ones.
LayerDraw_QuadsTogether(l, max_depth) ==
    LET order == <<1, 6, 2, 3, 4, 5, 7, 8>>
        all == [ i \in 1..Len(Passes) |->
                   [pass |-> Passes[order[i]], max_depth |-> max_depth,
                    items |-> BucketOf(l, Passes[order[i]].bucket)] ]
    IN  SelectSeq(all, LAMBDA c : PassDraws(l, c.pass.bucket))

\* Layer::draw(renderer, max_depth): the draw calls issued, in order.
LayerDraw(l, max_depth) ==
    LET all == [ i \in 1..Len(Passes) |->
                   [pass |-> Passes[i], max_depth |-> max_depth,
                    items |-> BucketOf(l, Passes[i].bucket)] ]
    IN  SelectSeq(all, LAMBDA c : PassDraws(l, c.pass.bucket))

\* The state of a new GL context.
GlDefault ==
    [blend |-> FALSE, src |-> "ONE", depth_mask |-> TRUE, depth_test |-> FALSE,
     depth_func |-> "LESS"]

GlCmd(cmd, arg) == [cmd |-> cmd, arg |-> arg]

\* finish(): the GL state set before Layer::draw (context.rs 595-597).
FinishCommands ==
    << GlCmd("enable", "DEPTH_TEST"), GlCmd("depth_func", "LEQUAL"),
       GlCmd("depth_mask", TRUE) >>

\* Mutant of LayerDrawCommands: the state is not put back after the last pass.
LayerDrawCommands_NoReset ==
    << GlCmd("disable", "BLEND"), GlCmd("blend_func", "SRC_ALPHA"),
       GlCmd("draw", "quads"), GlCmd("draw", "triangles"),
       GlCmd("depth_mask", FALSE), GlCmd("enable", "BLEND"),
       GlCmd("blend_func", "SRC1_COLOR"),
       GlCmd("draw", "texts"),
       GlCmd("enable", "BLEND"), GlCmd("blend_func", "SRC_ALPHA"),
       GlCmd("draw", "svgs"), GlCmd("draw", "color_texts"),
       GlCmd("draw", "transparent_quads"), GlCmd("draw", "blurred_quads"),
       GlCmd("draw", "transparent_triangles") >>

\* Layer::draw: the GL commands and the calls of the pipelines' draw, in the
\* order of the code (the pipelines in src change neither blending nor the
\* depth state).
LayerDrawCommands ==
    << GlCmd("disable", "BLEND"), GlCmd("blend_func", "SRC_ALPHA"),
       GlCmd("draw", "quads"), GlCmd("draw", "triangles"),
       GlCmd("depth_mask", FALSE), GlCmd("enable", "BLEND"),
       GlCmd("blend_func", "SRC1_COLOR"),
       GlCmd("draw", "texts"),
       GlCmd("enable", "BLEND"), GlCmd("blend_func", "SRC_ALPHA"),
       GlCmd("draw", "svgs"), GlCmd("draw", "color_texts"),
       GlCmd("draw", "transparent_quads"), GlCmd("draw", "blurred_quads"),
       GlCmd("draw", "transparent_triangles"),
       GlCmd("disable", "BLEND"), GlCmd("depth_mask", TRUE) >>

\* The GL state after a command.
GlApply(g, c) ==
    CASE c.cmd = "enable" /\ c.arg = "BLEND"       -> [g EXCEPT !.blend = TRUE]
      [] c.cmd = "disable" /\ c.arg = "BLEND"      -> [g EXCEPT !.blend = FALSE]
      [] c.cmd = "enable" /\ c.arg = "DEPTH_TEST"  -> [g EXCEPT !.depth_test = TRUE]
      [] c.cmd = "blend_func"                      -> [g EXCEPT !.src = c.arg]
      [] c.cmd = "depth_func"                      -> [g EXCEPT !.depth_func = c.arg]
      [] c.cmd = "depth_mask"                      -> [g EXCEPT !.depth_mask = c.arg]
      [] OTHER                                     -> g

\* The GL state after a list of commands, with the state at each draw.
RECURSIVE GlRun(_, _, _)
GlRun(g, cmds, log) ==
    IF cmds = <<>> THEN [gl |-> g, log |-> log]
    ELSE LET c == cmds[1]
         IN  GlRun(GlApply(g, c), SubSeq(cmds, 2, Len(cmds)),
                   IF c.cmd = "draw"
                   THEN Append(log, [bucket |-> c.arg, blend |-> g.blend, src |-> g.src,
                                     depth_mask |-> g.depth_mask,
                                     depth_test |-> g.depth_test])
                   ELSE log)

\* finish(): clears the colour and the depth buffer (depth 1.0), enables the
\* depth test with LEQUAL and depth writes, and draws the layer with
\* max_depth = self.depth.
Finish ==
    /\ Len(submitted) < MaxFrames
    /\ CanRecord
    /\ submitted' = Append(submitted, LayerDraw(layer, depth))
    /\ LET run == GlRun(gl_state, FinishCommands \o LayerDrawCommands, <<>>)
       IN  gl_state' = run.gl /\ gl_log' = run.log
    /\ ret' = [op |-> "finish", res |-> "Ok"]
    /\ UNCHANGED <<cur_transform, state_stack, clip_stack, primitives, depth, layer,
                   saved, base_clips>>

-----------------------------------------------------------------------------
(* What the GPU makes of a submitted frame, at sample pixels.  A pixel is    *)
(* <<x, y>> and stands for its centre (x + 1/2, y + 1/2).                    *)

Pixels == { <<2, 2>>, <<12, 2>> }

\* The pixel's centre is inside the rectangle.
InRect(r, p) == r[1] <= p[1] /\ p[1] < r[3] /\ r[2] <= p[2] /\ p[2] < r[4]

\* The pixel's centre is inside the triangle (coordinates doubled, so that
\* the centre is integral); a triangle without area covers nothing.
Cross(a, b, c) == (b[1] - a[1]) * (c[2] - a[2]) - (b[2] - a[2]) * (c[1] - a[1])
InTriangle(tri, p) ==
    LET q  == <<2 * p[1] + 1, 2 * p[2] + 1>>
        v  == [ i \in 1..3 |-> <<2 * tri[i][1], 2 * tri[i][2]>> ]
        d1 == Cross(v[1], v[2], q)
        d2 == Cross(v[2], v[3], q)
        d3 == Cross(v[3], v[1], q)
    IN  /\ Cross(v[1], v[2], v[3]) # 0
        /\ ~((d1 < 0 \/ d2 < 0 \/ d3 < 0) /\ (d1 > 0 \/ d2 > 0 \/ d3 > 0))

\* The shaders discard a fragment outside the clip rectangle recorded on its
\* primitive; [0, 0, 0, 0] is recorded when no clip is active.
ClipPasses(clip, p) == clip = NoClip \/ InRect(clip, p)

\* The shaders map the recorded depth to z so that a larger depth is nearer:
\* depth 0 is the far value 1.0, depth max_depth is 0.0.  z is kept as
\* max_depth - depth.
MappedZ(d, max_depth) == max_depth - d

\* finish(): gl.clear_depth_f32(1.0), the far value.
ClearDepth(max_depth) == MappedZ(0, max_depth)

\* Mutant of DepthFunc: every fragment passes, as with the depth test off.
DepthFunc_Always == "ALWAYS"

\* finish(): gl.enable(DEPTH_TEST); gl.depth_func(LEQUAL).
DepthFunc == "LEQUAL"

\* The GL depth test.
DepthTest(func, z, stored) ==
    CASE func = "LEQUAL" -> z <= stored
      [] func = "LESS"   -> z < stored
      [] func = "ALWAYS" -> TRUE

\* The fragments a draw call produces at a pixel, in the order of the
\* instances (of the index triples, for a mesh).
MeshTriangles(mesh) ==
    [ k \in 1..(Len(mesh.indices) \div 3) |->
        LET v == [ i \in 1..3 |-> mesh.vertices[mesh.indices[3 * (k - 1) + i] + 1] ]
        IN  [ tri   |-> <<v[1].pos, v[2].pos, v[3].pos>>, color |-> v[1].color,
              depth |-> v[1].depth, clip |-> v[1].clip ] ]
Fragments(call, p) ==
    IF call.pass.bucket \in { "triangles", "transparent_triangles" }
    THEN LET tris == SelectSeq(MeshTriangles(call.items),
                               LAMBDA t : InTriangle(t.tri, p) /\ ClipPasses(t.clip, p))
         IN  [ i \in 1..Len(tris) |-> [bucket |-> call.pass.bucket, item |-> tris[i]] ]
    ELSE LET its == SelectSeq(call.items,
                              LAMBDA q : InRect(q.rect, p) /\ ClipPasses(q.clip, p))
         IN  [ i \in 1..Len(its) |-> [bucket |-> call.pass.bucket, item |-> its[i]] ]

\* A pixel of the frame buffer: the z stored in the depth buffer and the
\* fragments that make up its colour, bottom first.  A fragment that passes
\* the depth test replaces the colour when blending is off and is blended
\* over it when blending is on; it writes its z when the depth mask is on.
ClearedPixel(max_depth) == [z |-> ClearDepth(max_depth), stack |-> <<>>]
ApplyFragment(px, frag, pass, max_depth) ==
    LET z == MappedZ(frag.item.depth, max_depth)
    IN  IF ~DepthTest(DepthFunc, z, px.z) THEN px
        ELSE [ z     |-> IF pass.depth_mask THEN z ELSE px.z,
               stack |-> IF pass.blend THEN Append(px.stack, frag) ELSE <<frag>> ]

RECURSIVE ApplyFragments(_, _, _, _)
ApplyFragments(px, frags, pass, max_depth) ==
    IF frags = <<>> THEN px
    ELSE ApplyFragments(ApplyFragment(px, frags[1], pass, max_depth),
                        SubSeq(frags, 2, Len(frags)), pass, max_depth)

\* The pixel after the draw calls of a frame, from a cleared pixel.
RECURSIVE ApplyCalls(_, _, _)
ApplyCalls(px, calls, p) ==
    IF calls = <<>> THEN px
    ELSE ApplyCalls(ApplyFragments(px, Fragments(calls[1], p), calls[1].pass,
                                   calls[1].max_depth),
                    SubSeq(calls, 2, Len(calls)), p)
Composite(calls, p) ==
    IF calls = <<>> THEN ClearedPixel(0)
    ELSE ApplyCalls(ClearedPixel(calls[1].max_depth), calls, p)

-----------------------------------------------------------------------------
(* The fonts of the machine: what font-kit and the fonts directory hold.     *)
(* Lengths of a font are in half ems, pixel lengths in eighths of a pixel.   *)

\* Eighths of a pixel: glyph sizes are multiples of half a pixel and are
\* divided by a scale of 1, 2 or 4.
Q == 2 * 4

Chars == { "a", "b", "c", "z", "?" }
Families == { "Mono", "Other" }
FontSizes == { 9, 18 }
Scales == { 1, 2 }

\* SystemSource::select_best_match: the families installed.
SystemFont(family) == IF family = "Mono" THEN "mono" ELSE "none"

\* get_fallback_fonts(): the fonts of the fonts directory, in load order.
FallbackFonts == << "fb", "fb2" >>

\* Font::glyph_for_char: 0 for None.
GlyphForChar(font, c) ==
    CASE font = "mono"    -> (CASE c = "a" -> 1 [] c = "b" -> 2 [] c = "c" -> 3 [] OTHER -> 0)
      [] font = "default" -> (CASE c = "a" -> 1 [] c = "b" -> 2 [] OTHER -> 0)
      [] font = "fb"      -> (IF c = "z" THEN 7 ELSE 0)
      [] font = "fb2"     -> (IF c = "z" THEN 9 ELSE 0)
      [] OTHER            -> 0

\* Font::advance(glyph).x() / units_per_em, in half ems.
Advance(font, glyph_id) ==
    CASE font = "fb"   -> 6
      [] glyph_id = 2  -> 3
      [] OTHER         -> 2

\* (ascent - descent + line_gap) / units_per_em, in half ems.
LineHeight(font) == IF font = "default" THEN 3 ELSE 4

\* f32::ceil of a length in eighths of a pixel, as a number of pixels.
CeilPx(x) == (x + Q - 1) \div Q

-----------------------------------------------------------------------------
(* Cache: the three atlas caches differ in three constants *)

\* text.rs 354: padding = 2.0; the other caches pad nothing.
Padding(impl) == IF impl = "text" THEN 2 ELSE 0

\* pipeline.rs 674: y = last_row.y + last_row.height + 1; the others add 0.
RowGap(impl) == IF impl = "pipeline" THEN 1 ELSE 0

\* text.rs 344: scale = self.scale; pipeline.rs 593 and text_pipeline.rs 358:
\* scale = self.scale * 2.0.
EffectiveScale(impl, sc) == IF impl = "text" THEN sc ELSE sc * 2

\* (font_size as f64 * scale).round() as u32
ScaledFontSize(impl, sc, font_size) == font_size * EffectiveScale(impl, sc)

\* u32 arithmetic: a - b wraps around in a build without overflow checks,
\* to 2^32 - (b - a) when a < b.  U32SubExceeds(a, b, c) is a - b > c on u32;
\* 2^32 is beyond the numbers of the model checker, so the wrapped case
\* compares b - a + c with 2^16 * 2^16.
TwoPow16 == 65536
U32SubExceeds(a, b, c) ==
    IF a >= b THEN a - b > c
    ELSE (b - a + c) \div TwoPow16 < TwoPow16

\* A 0-based index into a Vec.
At(vec, i) == vec[i + 1]

\* get_new_font: the font for a family; text.rs falls back on the default
\* font, the other caches return Err(MissingFont).
NewFont(impl, family) ==
    IF SystemFont(family) # "none" THEN SystemFont(family)
    ELSE IF impl = "text" THEN "default" ELSE "none"

\* get_font_by_family / get_font: the font tables after the call and the
\* font id, or the failure of get_new_font.
FontByFamily(impl, family) ==
    IF family \in DOMAIN font_families
    THEN [ok |-> TRUE, font_id |-> font_families[family], fonts |-> fonts,
          piet_fonts |-> piet_fonts, font_families |-> font_families]
    ELSE IF NewFont(impl, family) = "none"
    THEN [ok |-> FALSE, font_id |-> 0, fonts |-> fonts,
          piet_fonts |-> piet_fonts, font_families |-> font_families]
    ELSE [ok |-> TRUE, font_id |-> Len(fonts),
          fonts |-> Append(fonts, NewFont(impl, family)),
          piet_fonts |-> IF impl = "text"
                         THEN Append(piet_fonts, NewFont(impl, family))
                         ELSE piet_fonts,
          font_families |-> (family :> Len(fonts)) @@ font_families]

\* get_glyph_from_fallback_fonts, first part: the fallback fonts are appended
\* to fonts (and not to piet_fonts) the first time.
LoadFallback(fnts, fb) ==
    IF fb.loaded THEN [fonts |-> fnts, fallback |-> fb]
    ELSE [fonts |-> fnts \o FallbackFonts,
          fallback |-> [loaded |-> TRUE, start |-> Len(fnts),
                        end |-> Len(fnts) + Len(FallbackFonts)]]

\* Mutant of FallbackSearch: the last font of the range that has the character.
RECURSIVE FallbackSearch_Last(_, _, _, _)
FallbackSearch_Last(fnts, c, font_id, end) ==
    IF font_id >= end THEN [font_id |-> -1, glyph_id |-> 0]
    ELSE IF GlyphForChar(At(fnts, end - 1), c) # 0
    THEN [font_id |-> end - 1, glyph_id |-> GlyphForChar(At(fnts, end - 1), c)]
    ELSE FallbackSearch_Last(fnts, c, font_id, end - 1)

\* get_glyph_from_fallback_fonts, second part: the first font of the range
\* that has the character; font_id = -1 for None.
RECURSIVE FallbackSearch(_, _, _, _)
FallbackSearch(fnts, c, font_id, end) ==
    IF font_id >= end THEN [font_id |-> -1, glyph_id |-> 0]
    ELSE IF GlyphForChar(At(fnts, font_id), c) # 0
    THEN [font_id |-> font_id, glyph_id |-> GlyphForChar(At(fnts, font_id), c)]
    ELSE FallbackSearch(fnts, c, font_id + 1, end)

\* get_glyph_info (text.rs 305-334, pipeline.rs 552-581) and the start of
\* text_pipeline.rs get_glyph_pos (361-367): the glyph of a character, with
\* the tables as the call leaves them.
GlyphInfoOf(impl, c, family) ==
    LET unchanged == [fonts |-> fonts, piet_fonts |-> piet_fonts,
                      font_families |-> font_families, fallback |-> fallback,
                      glyph_infos |-> glyph_infos]
        byfam == FontByFamily(impl, family)
        loaded == [unchanged EXCEPT !.fonts = byfam.fonts,
                                    !.piet_fonts = byfam.piet_fonts,
                                    !.font_families = byfam.font_families]
        own == GlyphForChar(At(byfam.fonts, byfam.font_id), c)
        fb == LoadFallback(byfam.fonts, fallback)
        found == FallbackSearch(fb.fonts, c, fb.fallback.start, fb.fallback.end)
        withfb == [loaded EXCEPT !.fonts = fb.fonts, !.fallback = fb.fallback]
        memo(t, fid, gid) ==
            [t EXCEPT !.glyph_infos = (<<c, family>> :> <<fid, gid>>) @@ @]
    IN  IF impl # "text_pipeline" /\ <<c, family>> \in DOMAIN glyph_infos
        THEN [ok |-> TRUE, font_id |-> glyph_infos[<<c, family>>][1],
              glyph_id |-> glyph_infos[<<c, family>>][2], tables |-> unchanged]
        ELSE IF ~byfam.ok
        THEN [ok |-> FALSE, font_id |-> 0, glyph_id |-> 0, tables |-> unchanged]
        ELSE IF impl = "text_pipeline"
        THEN [ok |-> own # 0, font_id |-> byfam.font_id, glyph_id |-> own,
              tables |-> loaded]
        ELSE IF own # 0
        THEN [ok |-> TRUE, font_id |-> byfam.font_id, glyph_id |-> own,
              tables |-> memo(loaded, byfam.font_id, own)]
        ELSE IF found.font_id < 0
        THEN [ok |-> FALSE, font_id |-> 0, glyph_id |-> 0, tables |-> withfb]
        ELSE [ok |-> TRUE, font_id |-> found.font_id, glyph_id |-> found.glyph_id,
              tables |-> memo(withfb, found.font_id, found.glyph_id)]

\* GlyphInfo, the key of the glyph map.
GlyphKey(font_id, glyph_id, font_size) ==
    [font_id |-> font_id, glyph_id |-> glyph_id, font_size |-> font_size]

\* glyph_real_width and glyph_real_height (glyph_width and glyph_height in
\* pipeline.rs and text_pipeline.rs), in eighths of a pixel.
RealWidth(fnts, key) ==
    (Advance(At(fnts, key.font_id), key.glyph_id) * key.font_size * Q) \div 2
RealHeight(fnts, key) ==
    (LineHeight(At(fnts, key.font_id)) * key.font_size * Q) \div 2

\* Mutant of SlotWidth: the padding is left out of the slot.
SlotWidth_NoPadding(impl, fnts, key) == CeilPx(RealWidth(fnts, key))

\* The width and the height of the slot a glyph takes in its row, in pixels:
\* the bitmap rounded up, plus the padding.
SlotWidth(impl, fnts, key) == CeilPx(RealWidth(fnts, key)) + Padding(impl)

\* The scan of the rows, most recently inserted first (rows.iter_mut().rev()):
\* the first row of the glyph's height with self.width - row.width >
\* glyph_width.  With row.width > self.width the subtraction underflows:
\* a build with overflow checks panics, a build without wraps around.
RECURSIVE ScanRows(_, _, _, _, _)
ScanRows(rws, i, gw, gh, checked) ==
    IF i = 0 THEN [kind |-> "none", row |-> 0]
    ELSE IF rws[i].height # gh THEN ScanRows(rws, i - 1, gw, gh, checked)
    ELSE IF rws[i].width > AtlasWidth /\ checked THEN [kind |-> "panic", row |-> i]
    ELSE IF U32SubExceeds(AtlasWidth, rws[i].width, gw) THEN [kind |-> "found", row |-> i]
    ELSE ScanRows(rws, i - 1, gw, gh, checked)

\* Mutant of NewRowY: the new row starts where the last row starts.
NewRowY_SameY(impl, rws) == IF rws = <<>> THEN 0 ELSE Last(rws).y

\* y of a new row: below the last row.
NewRowY(impl, rws) ==
    IF rws = <<>> THEN 0 ELSE Last(rws).y + Last(rws).height + RowGap(impl)

\* `if self.height < y + glyph_height { return Err(..) }`
NewRowFits(y, gh) == ~(AtlasHeight < y + gh)

\* glyph_rect_to_pos (text.rs 585-610) and its inlined copies: origin in
\* pixels, the glyph's real size; rect has that size divided by scale,
\* cache_rect is the glyph rectangle divided by the atlas size.
GlyphPos(key, rw, rh, ox, oy, sc) ==
    [ info       |-> key,
      rect       |-> << ox * Q, oy * Q, ox * Q + rw \div sc, oy * Q + rh \div sc >>,
      width      |-> rw \div sc,
      cache_rect |-> [ rect |-> << ox * Q, oy * Q, ox * Q + rw, oy * Q + rh >>,
                       size |-> << AtlasWidth * Q, AtlasHeight * Q >> ] ]

\* Origin of a glyph in its slot: padding / 2 inside it. In eighths of a pixel
\* the origin (x + padding / 2) is (2 * x + padding) * Q / 2.
GlyphPosAt(impl, key, rw, rh, x, y, sc) ==
    LET half == Padding(impl) \div 2
    IN  GlyphPos(key, rw, rh, x + half, y + half, sc)

\* Mutant of CachedPos: the last glyph of the row instead of the indexed one.
CachedPos_LastOfRow(rws, gl, key) == Last(At(rws, gl[key][1]).glyphs)

\* `self.rows.get(row).unwrap().glyphs[*index]` for a key of the glyph map.
CachedPos(rws, gl, key) == At(At(rws, gl[key][1]).glyphs, gl[key][2])

\* `self.glyphs.get(&glyph)` is Some.
IsCached(gl, key) == key \in DOMAIN gl

\* Mutant of SlotHeight: the padding is left out of the row height.
SlotHeight_NoPadding(impl, fnts, key) == CeilPx(RealHeight(fnts, key))

\* The height of the slot, which is the height of its row.
SlotHeight(impl, fnts, key) == CeilPx(RealHeight(fnts, key)) + Padding(impl)

NoPos == [info |-> GlyphKey(0, 0, 0), rect |-> <<0, 0, 0, 0>>, width |-> 0,
          cache_rect |-> [rect |-> <<0, 0, 0, 0>>, size |-> <<0, 0>>]]

\* GlyphPosInfo::empty(width): a rectangle of no height and no atlas area.
GlyphPosEmpty(width) ==
    [info |-> GlyphKey(0, 0, 0), rect |-> <<0, 0, width, 0>>, width |-> width,
     cache_rect |-> [rect |-> <<0, 0, 0, 0>>, size |-> <<0, 0>>]]

\* Widths rebuild() takes for a character whose glyph it did not get.
DefaultWidths == { 4, 8 }

\* WgpuTextLayout::rebuild, for one visible character at the start of a line:
\* the instance made from the result of get_glyph_pos, an error being
\* replaced by GlyphPosInfo::empty(default_width).
RebuildInstance(res, default_width) ==
    LET glyph_pos == IF res.res = "Ok" THEN res.pos ELSE GlyphPosEmpty(default_width)
        rect == glyph_pos.rect
    IN  [rect     |-> <<0, 0, rect[3] - rect[1], rect[4] - rect[2]>>,
         tex_rect |-> glyph_pos.cache_rect.rect,
         depth    |-> 0,
         clip     |-> <<0, 0, 0, 0>>]

CacheInit ==
    /\ cache_impl \in { "text", "pipeline", "text_pipeline" }
    /\ scale = 1
    /\ fonts = <<>>
    /\ piet_fonts = <<>>
    /\ font_families = <<>>
    /\ fallback = [loaded |-> FALSE, start |-> 0, end |-> 0]
    /\ glyph_infos = <<>>
    /\ rows = <<>>
    /\ glyphs = <<>>
    /\ cache_ret = [path |-> "new", res |-> "Ok", key |-> GlyphKey(0, 0, 0), pos |-> NoPos]
    /\ panicked = FALSE
    /\ rasterized = <<>>
    /\ alloc = <<>>
    /\ lookups = 0

\* WgpuRenderer::set_scale (lib.rs 175-178)
SetScale(sc) ==
    /\ ~panicked
    /\ sc # scale
    /\ scale' = sc
    /\ UNCHANGED <<cache_impl, fonts, piet_fonts, font_families, fallback, glyph_infos,
                   rows, glyphs, cache_ret, panicked, rasterized, alloc, lookups>>

Count(f, k) == IF k \in DOMAIN f THEN f[k] ELSE 0

\* The tables of fonts and glyph ids as a call of get_glyph_info leaves them.
SetTables(t) ==
    /\ fonts' = t.fonts
    /\ piet_fonts' = t.piet_fonts
    /\ font_families' = t.font_families
    /\ fallback' = t.fallback
    /\ glyph_infos' = t.glyph_infos

\* The call returns Err(piet::Error::MissingFont) from the path `path`.
ReturnErr(path, key) ==
    cache_ret' = [path |-> path, res |-> "MissingFont", key |-> key, pos |-> NoPos]

\* Cache::get_glyph_pos(c, font_family, font_size, font_weight)
GetGlyphPos(c, family, font_size, checked) ==
    /\ ~panicked
    /\ lookups < MaxLookups
    /\ lookups' = lookups + 1
    /\ UNCHANGED <<cache_impl, scale>>
    /\ LET impl == cache_impl
           sc   == EffectiveScale(impl, scale)
           info == GlyphInfoOf(impl, c, family)
           key  == GlyphKey(info.font_id, info.glyph_id,
                            ScaledFontSize(impl, scale, font_size))
           fnts == info.tables.fonts
           rw   == RealWidth(fnts, key)
           rh   == RealHeight(fnts, key)
           gw   == SlotWidth(impl, fnts, key)
           gh   == SlotHeight(impl, fnts, key)
           scan == ScanRows(rows, Len(rows), gw, gh, checked)
           y    == NewRowY(impl, rows)
           rendered == (key :> Count(rasterized, key) + 1) @@ rasterized
       IN  /\ SetTables(info.tables)
           /\ IF ~info.ok
              THEN \* the family has no font, or no font has the character
                   /\ ReturnErr("no_glyph", GlyphKey(0, 0, 0))
                   /\ UNCHANGED <<rows, glyphs, panicked, rasterized, alloc>>
              ELSE IF IsCached(glyphs, key)
              THEN \* the glyph is in the atlas
                   /\ cache_ret' = [path |-> "hit", res |-> "Ok", key |-> key,
                                    pos |-> CachedPos(rows, glyphs, key)]
                   /\ UNCHANGED <<rows, glyphs, panicked, rasterized, alloc>>
              ELSE IF impl = "text" /\ key.font_id >= Len(info.tables.piet_fonts)
              THEN \* text.rs 378: self.piet_fonts[glyph.font_id] is out of bounds
                   /\ panicked' = TRUE
                   /\ cache_ret' = [path |-> "panic", res |-> "panic", key |-> key,
                                    pos |-> NoPos]
                   /\ UNCHANGED <<rows, glyphs, rasterized, alloc>>
              ELSE IF scan.kind = "panic"
              THEN \* the glyph is rasterized, then self.width - row.width panics
                   /\ panicked' = TRUE
                   /\ rasterized' = rendered
                   /\ cache_ret' = [path |-> "panic", res |-> "panic", key |-> key,
                                    pos |-> NoPos]
                   /\ UNCHANGED <<rows, glyphs, alloc>>
              ELSE IF scan.kind = "found"
              THEN \* the glyph is appended to a row of its height
                   LET row == rows[scan.row]
                       pos == GlyphPosAt(impl, key, rw, rh, row.width, row.y, sc)
                   IN  /\ rows' = [rows EXCEPT ![scan.row] =
                                     [@ EXCEPT !.glyphs = Append(@, pos),
                                               !.width = @ + gw]]
                       /\ glyphs' = (key :> <<scan.row - 1, Len(row.glyphs)>>) @@ glyphs
                       /\ alloc' = (key :> <<row.width, row.y, row.width + gw, row.y + gh>>)
                                      @@ alloc
                       /\ rasterized' = rendered
                       /\ cache_ret' = [path |-> "row", res |-> "Ok", key |-> key,
                                        pos |-> CachedPos(rows', glyphs', key)]
                       /\ UNCHANGED panicked
              ELSE IF ~NewRowFits(y, gh)
              THEN \* no room for a new row
                   /\ rasterized' = rendered
                   /\ ReturnErr("no_space", key)
                   /\ UNCHANGED <<rows, glyphs, panicked, alloc>>
              ELSE \* the glyph starts a new row
                   LET pos == GlyphPosAt(impl, key, rw, rh, 0, y, sc)
                   IN  /\ rows' = Append(rows, [y |-> y, height |-> gh, width |-> gw,
                                                glyphs |-> <<pos>>])
                       /\ glyphs' = (key :> <<Len(rows), 0>>) @@ glyphs
                       /\ alloc' = (key :> <<0, y, gw, y + gh>>) @@ alloc
                       /\ rasterized' = rendered
                       /\ cache_ret' = [path |-> "new_row", res |-> "Ok", key |-> key,
                                        pos |-> CachedPos(rows', glyphs', key)]
                       /\ UNCHANGED panicked

-----------------------------------------------------------------------------
(* SvgStore (svg.rs 53-74) *)

\* The content hashes (Svg::hash, the SHA-256 of the source text) of the
\* icons handed to get_svg_data.
SvgHashes == { "h1", "h2", "h3" }

\* new_svg_data(svg): the mesh tessellated from the icon; `build` tells the
\* meshes built for one icon apart.
NewSvgData(h, build) == [hash |-> h, build |-> build]

\* Mutant of SvgStored: the store never finds the hash.
SvgStored_Never(store, h) == FALSE

\* `self.svgs.contains_key(&svg.hash)`
SvgStored(store, h) == h \in DOMAIN store

\* SvgStore::get_svg_data(svg)
GetSvgData(h) ==
    /\ svg_calls < MaxSvgCalls
    /\ svg_calls' = svg_calls + 1
    /\ IF ~SvgStored(svgs, h)
       THEN /\ tessellated' = (h :> Count(tessellated, h) + 1) @@ tessellated
            /\ svgs' = (h :> NewSvgData(h, tessellated'[h])) @@ svgs
       ELSE UNCHANGED <<svgs, tessellated>>
    /\ svg_ret' = [hash |-> h, data |-> svgs'[h]]

-----------------------------------------------------------------------------
(* The GPU buffers of the pipelines (triangle.rs, text.rs, blur_quad.rs,     *)
(* pipeline.rs)                                                              *)

\* triangle.rs 8-9
VERTEX_BUFFER_SIZE == 10000
INDEX_BUFFER_SIZE == 10000

\* text.rs 20 and blur_quad.rs 5
MAX_INSTANCES == 100000

\* pipeline.rs 115: `let supported_primitives = 1000`
SupportedPrimitives == 1000

\* Numbers of vertices and indices handed to the triangle pipeline, of
\* instances handed to the text and blur pipelines, and of vertices, indices
\* and primitives handed to Pipeline::draw of pipeline.rs (the context's
\* primitives list is never empty).
VertexCounts == { 0, 3, VERTEX_BUFFER_SIZE + 1 }
IndexCounts == { 3, INDEX_BUFFER_SIZE + 1 }
InstanceCounts == { 0, 1, MAX_INSTANCES, MAX_INSTANCES + 1 }
GeometryVertexCounts == { 1, 4 }
GeometryIndexCounts == { 3, 6 }
PrimitiveCounts == { 1, SupportedPrimitives, SupportedPrimitives + 1 }

\* Mutant of BufferBind: the buffer is reallocated to the size asked for on
\* every call.
BufferBind_Always(size, n) == n

\* Buffer::bind(gl, size): the buffer is reallocated when it is smaller.
BufferBind(size, n) == IF size < n THEN n ELSE size

\* gl.buffer_sub_data of n elements at offset 0 into a buffer of `capacity`
\* elements: a write past the end of the buffer is GL_INVALID_VALUE and
\* writes nothing.
BufferSubData(capacity, n) == IF n <= capacity THEN n ELSE 0

\* A write of `written` of the n elements handed in, into a buffer with room
\* for `capacity`.
Upload(buffer, n, capacity, written) ==
    [buffer |-> buffer, n |-> n, capacity |-> capacity, written |-> written]

-----------------------------------------------------------------------------
(* PathConvIter (svg.rs 154-252): usvg path segments to lyon path events *)

\* Points of the segments, and the control points of every CurveTo.
PathPoints == { <<1, 1>>, <<2, 3>> }
PathCtrl1 == <<0, 2>>
PathCtrl2 == <<3, 0>>

\* usvg::PathSegment; p is the point of MoveTo, LineTo and CurveTo.
PathSegment(kind, p) == [kind |-> kind, p |-> p]
PathSegments ==
    { PathSegment(k, q) : k \in { "MoveTo", "LineTo", "CurveTo" }, q \in PathPoints }
      \cup { PathSegment("ClosePath", <<0, 0>>) }

\* usvg::Path::data: the paths of at most MaxSegs segments that start with
\* MoveTo.
PathDatas ==
    UNION { { << PathSegment("MoveTo", q) >> \o t :
                q \in PathPoints, t \in [1..n -> PathSegments] } : n \in 0..(MaxSegs - 1) }

\* lyon's PathEvent; NoEvent is None.
EventBegin(at) == [kind |-> "Begin", at |-> at]
EventLine(from, to) == [kind |-> "Line", from |-> from, to |-> to]
EventCubic(from, ctrl1, ctrl2, to) ==
    [kind |-> "Cubic", from |-> from, ctrl1 |-> ctrl1, ctrl2 |-> ctrl2, to |-> to]
EventEnd(last, first, close) ==
    [kind |-> "End", last |-> last, first |-> first, close |-> close]
NoEvent == [kind |-> "None"]

\* convert_path(p)
ConvertPath(data) ==
    [data |-> data, pos |-> 0, first |-> <<0, 0>>, prev |-> <<0, 0>>,
     deferred |-> NoEvent, needs_end |-> FALSE]

\* PathConvIter::next: the iterator after the call and the event returned.
PathConvIterNext(it) ==
    IF it.deferred # NoEvent
    THEN [it |-> [it EXCEPT !.deferred = NoEvent], ev |-> it.deferred]
    ELSE IF it.pos >= Len(it.data)
    THEN \* self.iter.next() is None
         IF it.needs_end
         THEN [it |-> [it EXCEPT !.needs_end = FALSE],
               ev |-> EventEnd(it.prev, it.first, FALSE)]
         ELSE [it |-> it, ev |-> NoEvent]
    ELSE LET seg  == it.data[it.pos + 1]
             adv  == [it EXCEPT !.pos = @ + 1]
         IN  CASE seg.kind = "MoveTo" ->
                    IF it.needs_end
                    THEN [it |-> [adv EXCEPT !.needs_end = FALSE, !.prev = seg.p,
                                             !.deferred = EventBegin(seg.p),
                                             !.first = seg.p],
                          ev |-> EventEnd(it.prev, it.first, FALSE)]
                    ELSE [it |-> [adv EXCEPT !.first = seg.p, !.needs_end = TRUE],
                          ev |-> EventBegin(seg.p)]
               [] seg.kind = "LineTo" ->
                    [it |-> [adv EXCEPT !.needs_end = TRUE, !.prev = seg.p],
                     ev |-> EventLine(it.prev, seg.p)]
               [] seg.kind = "CurveTo" ->
                    [it |-> [adv EXCEPT !.needs_end = TRUE, !.prev = seg.p],
                     ev |-> EventCubic(it.prev, PathCtrl1, PathCtrl2, seg.p)]
               [] seg.kind = "ClosePath" ->
                    [it |-> [adv EXCEPT !.needs_end = FALSE, !.prev = it.first],
                     ev |-> EventEnd(it.first, it.first, TRUE)]

\* The tessellator's call of next(), until it has returned None.
PathNext ==
    /\ path_ret # NoEvent
    /\ LET r == PathConvIterNext(path_iter)
       IN  /\ path_iter' = r.it
           /\ path_ret' = r.ev
           /\ path_events' = IF r.ev = NoEvent THEN path_events
                             ELSE Append(path_events, r.ev)

\* The iterator convert_path(p) returns for the path data.
PathInit(data) ==
    /\ path_iter = ConvertPath(data)
    /\ path_ret = [kind |-> "new"]
    /\ path_events = <<>>

StoreInit ==
    /\ svgs = <<>>
    /\ svg_ret = [hash |-> "none", data |-> NewSvgData("none", 0)]
    /\ tessellated = <<>>
    /\ svg_calls = 0
    /\ buffers = [ tri_vertices         |-> BufferBind(0, VERTEX_BUFFER_SIZE),
                   tri_indices          |-> BufferBind(0, INDEX_BUFFER_SIZE),
                   tex_instances        |-> MAX_INSTANCES,
                   blur_instances       |-> MAX_INSTANCES,
                   supported_vertices   |-> 1,
                   supported_indices    |-> 1,
                   supported_primitives |-> SupportedPrimitives ]
    /\ upload = <<>>

-----------------------------------------------------------------------------
(* WgpuTextLayout::rebuild, the columns of a monospace layout *)
(* (text_layout.rs 108-138)                                    *)

\* Tab widths handed to rebuild, all at least 1.
TabWidths == { 1, 3, 4 }

\* Characters of the text: a tab, a letter, a wide character, a combining
\* mark and a control character.
LayoutChars == { "tab", "a", "wide", "combining", "control" }

\* UnicodeWidthChar::width(c).unwrap_or(1): None for a control character.
UnicodeWidth(c) ==
    CASE c = "wide" -> 2
      [] c = "combining" -> 0
      [] OTHER -> 1

\* Mutant of MonoCharWidth: a tab is tab_width columns wide, as in the layout
\* that is not monospace.
MonoCharWidth_FullTab(c, tab_width, mono_char_widths) ==
    IF c = "tab" THEN tab_width ELSE UnicodeWidth(c)

\* char_width of the monospace branch: a tab reaches the next tab stop.
MonoCharWidth(c, tab_width, mono_char_widths) ==
    IF c = "tab" THEN tab_width - (mono_char_widths % tab_width) ELSE UnicodeWidth(c)

\* rebuild(is_mono = true, tab_width, ..) before the first character.
LayoutInit(tab_width) ==
    /\ mono_layout = [tab_width |-> tab_width, mono_char_widths |-> 0, chars |-> 0]
    /\ layout_ret = [c |-> "none", char_width |-> 0]

\* One turn of the loop over the characters of the text.
RebuildChar(c) ==
    /\ mono_layout.chars < MaxText
    /\ LET char_width == MonoCharWidth(c, mono_layout.tab_width,
                                       mono_layout.mono_char_widths)
       IN  /\ mono_layout' = [mono_layout EXCEPT !.mono_char_widths = @ + char_width,
                                                 !.chars = @ + 1]
           /\ layout_ret' = [c |-> c, char_width |-> char_width]

RendererInit == StoreInit /\ PathInit(<<>>) /\ LayoutInit(4)

\* Pipeline::draw of triangle.rs
TriangleDraw(nv, ni) ==
    IF nv = 0
    THEN upload' = <<>> /\ UNCHANGED buffers
    ELSE /\ buffers' = [buffers EXCEPT !.tri_vertices = BufferBind(@, nv),
                                       !.tri_indices = BufferBind(@, ni)]
         /\ upload' =
              << Upload("tri_vertices", nv, buffers'.tri_vertices,
                        BufferSubData(buffers'.tri_vertices, nv)),
                 Upload("tri_indices", ni, buffers'.tri_indices,
                        BufferSubData(buffers'.tri_indices, ni)) >>

\* Pipeline::draw of text.rs: the instance buffer is created with room for
\* MAX_INSTANCES and never reallocated.
TexDraw(n) ==
    /\ upload' =
         IF n = 0 THEN <<>>
         ELSE << Upload("tex_instances", n, buffers.tex_instances,
                        BufferSubData(buffers.tex_instances, n)) >>
    /\ UNCHANGED buffers

\* Pipeline::draw of blur_quad.rs: as that of text.rs.
BlurQuadDraw(n) ==
    /\ upload' =
         IF n = 0 THEN <<>>
         ELSE << Upload("blur_instances", n, buffers.blur_instances,
                        BufferSubData(buffers.blur_instances, n)) >>
    /\ UNCHANGED buffers

\* Pipeline::draw of pipeline.rs: the vertex and index buffers are replaced
\* by larger ones when needed; the primitives beyond supported_primitives
\* are cut off.
GeometryDraw(nv, ni, np) ==
    /\ buffers' =
         [buffers EXCEPT !.supported_vertices = IF nv > @ THEN nv ELSE @,
                         !.supported_indices = IF ni > @ THEN ni ELSE @]
    /\ upload' =
         << Upload("vertices", nv, buffers'.supported_vertices, nv),
            Upload("indices", ni, buffers'.supported_indices, ni),
            Upload("primitives", np, buffers.supported_primitives,
                   Min(np, buffers.supported_primitives)) >>

\* The cache before its first use, as the context's specification keeps it.
CacheIdle == CacheInit /\ cache_impl = "text"

\* No frame has been submitted.
GpuInit ==
    /\ submitted = <<>>
    /\ gl_state = GlDefault
    /\ gl_log = <<>>

vars == <<ctx_vars, gpu_vars, cache_vars, renderer_vars>>

\* The render context, recording calls.
Init == CtxInit /\ GpuInit /\ CacheIdle /\ RendererInit
Next ==
    \/ Save /\ UNCHANGED <<gpu_vars, cache_vars, renderer_vars>>
    \/ Restore /\ UNCHANGED <<gpu_vars, cache_vars, renderer_vars>>
    \/ \E t \in Transforms : Transform(t) /\ UNCHANGED <<gpu_vars, cache_vars, renderer_vars>>
    \/ \E s \in ClipShapes : Clip(s) /\ UNCHANGED <<gpu_vars, cache_vars, renderer_vars>>
    \/ \E s \in DrawShapes, c \in Colors :
          Fill(s, c) /\ UNCHANGED <<gpu_vars, cache_vars, renderer_vars>>
    \/ \E s \in DrawShapes, c \in Colors :
          FillEvenOdd(s, c) /\ UNCHANGED <<gpu_vars, cache_vars, renderer_vars>>
    \/ \E s \in StrokeShapes, c \in Colors, w \in Widths :
          Stroke(s, c, w) /\ UNCHANGED <<gpu_vars, cache_vars, renderer_vars>>
    \/ \E s \in BlurShapes, r \in Radii, c \in BlurColors :
          BlurredRect(s, r, c) /\ UNCHANGED <<gpu_vars, cache_vars, renderer_vars>>
    \/ \E l \in TextLayouts, p \in TextPositions :
          DrawText(l, p) /\ UNCHANGED <<gpu_vars, cache_vars, renderer_vars>>
    \/ \E f \in SvgResults, r \in SvgRects, c \in SvgColors :
          DrawSvg(f, r, c) /\ UNCHANGED <<gpu_vars, cache_vars, renderer_vars>>
    \/ \E f \in WithSaveBodies :
          WithSave(f) /\ UNCHANGED <<gpu_vars, cache_vars, renderer_vars>>
    \/ Finish /\ UNCHANGED <<cache_vars, renderer_vars>>
Spec == Init /\ [][Next]_vars

\* The glyph atlas cache, looking glyphs up.
InitAtlas == CacheInit /\ CtxInit /\ GpuInit /\ RendererInit
NextAtlas ==
    \/ \E sc \in Scales : SetScale(sc) /\ UNCHANGED <<ctx_vars, gpu_vars, renderer_vars>>
    \/ \E c \in Chars, f \in Families, fs \in FontSizes, checked \in BOOLEAN :
          GetGlyphPos(c, f, fs, checked) /\ UNCHANGED <<ctx_vars, gpu_vars, renderer_vars>>
SpecAtlas == InitAtlas /\ [][NextAtlas]_vars

\* The renderer's icon store and the buffers of its pipelines.
InitRenderer == RendererInit /\ CtxInit /\ GpuInit /\ CacheIdle
NextRenderer ==
    \/ \E h \in SvgHashes :
          GetSvgData(h) /\ UNCHANGED <<buffers, upload, path_vars, layout_vars, ctx_vars, gpu_vars,
                           cache_vars>>
    \/ \E nv \in VertexCounts, ni \in IndexCounts :
          TriangleDraw(nv, ni)
            /\ UNCHANGED <<svgs, svg_ret, tessellated, svg_calls, path_vars, layout_vars,
                           ctx_vars, gpu_vars, cache_vars>>
    \/ \E n \in InstanceCounts :
          TexDraw(n)
            /\ UNCHANGED <<svgs, svg_ret, tessellated, svg_calls, path_vars, layout_vars,
                           ctx_vars, gpu_vars, cache_vars>>
    \/ \E n \in InstanceCounts :
          BlurQuadDraw(n)
            /\ UNCHANGED <<svgs, svg_ret, tessellated, svg_calls, path_vars, layout_vars,
                           ctx_vars, gpu_vars, cache_vars>>
    \/ \E nv \in GeometryVertexCounts, ni \in GeometryIndexCounts,
          np \in PrimitiveCounts :
          GeometryDraw(nv, ni, np)
            /\ UNCHANGED <<svgs, svg_ret, tessellated, svg_calls, path_vars, layout_vars,
                           ctx_vars, gpu_vars, cache_vars>>
SpecRenderer == InitRenderer /\ [][NextRenderer]_vars

\* A Layer driven through its own methods.
LayerSize(l) ==
    Len(l.quads) + Len(l.transparent_quads) + Len(l.blurred_quads)
      + Len(l.triangles.vertices) + Len(l.transparent_triangles.vertices)
      + Len(l.texts) + Len(l.color_texts) + Len(l.svgs)
LayerVertex(color) == [pos |-> <<0, 0>>, color |-> color, depth |-> 1, clip |-> NoClip]
LayerCall(op, l) ==
    /\ layer' = l
    /\ ret' = [op |-> op, res |-> "Ok"]
    /\ UNCHANGED <<cur_transform, state_stack, clip_stack, primitives, depth, saved,
                   base_clips, gpu_vars, cache_vars, renderer_vars>>
InitLayer == Init
NextLayer ==
    \/ \E c \in Colors :
          /\ LayerSize(layer) < MaxLayerItems
          /\ LayerCall("add_quad", LayerAddQuad(layer, <<0, 0, 5, 5>>, c, 1, NoClip))
    \/ \E c \in BlurColors :
          /\ LayerSize(layer) < MaxLayerItems
          /\ LayerCall("add_blurred_quad",
                       LayerAddBlurredQuad(layer, <<-3, -3, 8, 8>>, <<0, 0, 5, 5>>, 1, c,
                                           1, NoClip))
    \/ \E c \in Colors :
          /\ LayerSize(layer) < MaxLayerItems
          /\ LayerCall("triangles",
                       IF c[4] < 100
                       THEN [layer EXCEPT !.transparent_triangles =
                               BuffersAppend(@, << LayerVertex(c) >>, <<0, 0, 0>>)]
                       ELSE [layer EXCEPT !.triangles =
                               BuffersAppend(@, << LayerVertex(c) >>, <<0, 0, 0>>)])
    \/ /\ LayerSize(layer) < MaxLayerItems
       /\ LayerCall("add_text", LayerAddText(layer, << LayoutInstance >>))
    \/ /\ LayerSize(layer) < MaxLayerItems
       /\ LayerCall("add_color_text", LayerAddColorText(layer, << LayoutInstance >>))
    \/ /\ LayerSize(layer) < MaxLayerItems
       /\ LayerCall("add_svg", LayerAddSvg(layer, LayoutInstance))
    \/ /\ LayerSize(layer) >= 0
       /\ LayerCall("reset", LayerReset(layer))
SpecLayer == InitLayer /\ [][NextLayer]_vars

\* The path converter, run over a path to the end.
InitPath ==
    /\ CtxInit /\ GpuInit /\ CacheIdle /\ StoreInit /\ LayoutInit(4)
    /\ \E data \in PathDatas : PathInit(data)
NextPath ==
    /\ path_iter.data # <<>>
    /\ PathNext
    /\ UNCHANGED <<svgs, svg_ret, tessellated, svg_calls, buffers, upload, layout_vars,
                   ctx_vars, gpu_vars, cache_vars>>
SpecPath == InitPath /\ [][NextPath]_vars

\* A monospace text layout, rebuilt character by character.
InitLayout ==
    /\ CtxInit /\ GpuInit /\ CacheIdle /\ StoreInit /\ PathInit(<<>>)
    /\ \E tab_width \in TabWidths : LayoutInit(tab_width)
NextLayout ==
    \E c \in LayoutChars :
        /\ RebuildChar(c)
        /\ UNCHANGED <<svgs, svg_ret, tessellated, svg_calls, buffers, upload, path_vars,
                       ctx_vars, gpu_vars, cache_vars>>
SpecLayout == InitLayout /\ [][NextLayout]_vars

\* The render context, clipped by rectangles that touch the origin (one left
\* of and above it, one right of and below it) and drawing texts at two
\* positions.
OriginClipShapes == { RectShape(-8, -8, 0, 0), RectShape(0, 0, 5, 5) }
InitClip == Init
NextClip ==
    \/ Save /\ UNCHANGED <<gpu_vars, cache_vars, renderer_vars>>
    \/ Restore /\ UNCHANGED <<gpu_vars, cache_vars, renderer_vars>>
    \/ \E s \in OriginClipShapes :
          Clip(s) /\ UNCHANGED <<gpu_vars, cache_vars, renderer_vars>>
    \/ \E s \in DrawShapes, c \in Colors :
          Fill(s, c) /\ UNCHANGED <<gpu_vars, cache_vars, renderer_vars>>
    \/ \E l \in TextLayouts, p \in LayoutPositions :
          DrawText(l, p) /\ UNCHANGED <<gpu_vars, cache_vars, renderer_vars>>
    \/ \E t \in Transforms :
          Transform(t) /\ UNCHANGED <<gpu_vars, cache_vars, renderer_vars>>
SpecClip == InitClip /\ [][NextClip]_vars

-----------------------------------------------------------------------------
(* The save/restore state machine *)

\* A step that pops a frame of state_stack: a restore() that returned Ok.
PopsFrame == Len(state_stack') < Len(state_stack)

\* The active clip rectangle: <<top of clip_stack>>, or <<>> for none.
ActiveClip(cs) == IF cs = <<>> THEN <<>> ELSE << Last(cs) >>

\* Sum of n_clip over the frames of a state stack.
RECURSIVE SumNClip(_)
SumNClip(ss) == IF ss = <<>> THEN 0 ELSE Last(ss).n_clip + SumNClip(Front(ss))

\* C1: whenever a restore() pops a frame, cur_transform afterwards equals
\* cur_transform immediately before the matching save(), whatever transform,
\* clip, fill and stroke calls and nested balanced save/restore pairs came
\* in between.
C1_RestoreTransform ==
    [][PopsFrame => cur_transform' = Last(saved).transform]_vars

\* C1 witness: save; transform(translate(10,0)); fill(rect(0,0,5,5), red);
\* restore has run and left the identity transform.
C1_Witness ==
    /\ ret = [op |-> "restore", res |-> "Ok"]
    /\ state_stack = <<>>
    /\ cur_transform = AffineIdentity
    /\ Len(primitives) = 3
    /\ primitives[2].translate = <<10, 0>>
    /\ Len(layer.quads) = 1
    /\ layer.quads[1].rect = <<10, 0, 15, 5>>

\* C2: whenever a restore() pops a frame, clip_stack afterwards has the
\* length it had immediately before the matching save() and the active clip
\* rectangle (top of clip_stack, or none) is the one of that moment.
C2_RestoreClips ==
    [][PopsFrame =>
         /\ Len(clip_stack') = Len(Last(saved).clips)
         /\ ActiveClip(clip_stack') = ActiveClip(Last(saved).clips)]_vars

\* C2 witness: the outermost restore has run after a clip() inside a nested
\* save/restore pair and a clip() in the outer frame; no clip is left.
C2_Witness ==
    /\ ret = [op |-> "restore", res |-> "Ok"]
    /\ state_stack = <<>>
    /\ clip_stack = <<>>
    /\ Len(primitives) = 5
    /\ primitives[2].clip_rect # NoClip
    /\ primitives[3].clip_rect # NoClip
    /\ primitives[4].clip_rect # NoClip
    /\ primitives[5].clip_rect = NoClip

\* C3 as stated: in every reachable state the length of clip_stack equals the
\* sum of n_clip over the frames on state_stack.
C3_ClipCountOriginal == Len(clip_stack) = SumNClip(state_stack)

\* C3 as amended: the length of clip_stack equals the sum of n_clip over the
\* frames on state_stack plus the number of clip rectangles pushed while no
\* save frame was open.
C3_ClipCount == Len(clip_stack) = SumNClip(state_stack) + base_clips

\* C3 witness: a clip pushed with no frame open and a clip counted by a frame.
C3_Witness ==
    /\ base_clips >= 1
    /\ state_stack # <<>>
    /\ Last(state_stack).n_clip >= 1

\* C4: restore() on an empty state_stack returns StackUnbalance and leaves
\* cur_transform, clip_stack, state_stack, depth, the primitives list and
\* every layer bucket unchanged; restore() on a non-empty state_stack returns
\* Ok and pops exactly one frame.
C4_Restore ==
    [][ret'.op = "restore" =>
         IF state_stack = <<>>
         THEN /\ ret'.res = "StackUnbalance"
              /\ UNCHANGED <<cur_transform, clip_stack, state_stack, depth,
                             primitives, layer>>
         ELSE /\ ret'.res = "Ok"
              /\ state_stack' = Front(state_stack)]_vars

\* C4 witness: restore() has failed in a context with a transform, a clip
\* and a recorded quad.
C4_Witness ==
    /\ ret = [op |-> "restore", res |-> "StackUnbalance"]
    /\ cur_transform # AffineIdentity
    /\ clip_stack # <<>>
    /\ depth >= 1
    /\ Len(layer.quads) + Len(layer.transparent_quads) >= 1

-----------------------------------------------------------------------------
(* The glyph atlas *)

\* A step that is a call of get_glyph_pos.
IsLookup == lookups' # lookups

\* The entry the glyph map holds for a key: position k[2] of row number k[1].
EntryOf(rws, gl, key) == rws[gl[key][1] + 1].glyphs[gl[key][2] + 1]

\* Two rectangles <<x0, y0, x1, y1>> share no area.
Disjoint(r, o) == r[3] <= o[1] \/ o[3] <= r[1] \/ r[4] <= o[2] \/ o[4] <= r[2]

\* A row passes the scan's test for a slot of width gw and height gh; a row
\* wider than the atlas makes the test's subtraction underflow.
RowTakes(row, gw, gh) ==
    /\ row.height = gh
    /\ (row.width <= AtlasWidth => AtlasWidth - row.width > gw)

\* The call of this step looks up a glyph that is not cached and that no row
\* takes: the call reaches the new-row branch, with these slot sizes.
CallKey == cache_ret'.key
CallWidth == CeilPx(RealWidth(fonts', CallKey)) + Padding(cache_impl)
CallHeight == CeilPx(RealHeight(fonts', CallKey)) + Padding(cache_impl)
NeedsNewRow ==
    /\ IsLookup
    /\ cache_ret'.path \notin { "no_glyph", "panic" }
    /\ CallKey \notin DOMAIN glyphs
    /\ \A i \in 1..Len(rows) : ~RowTakes(rows[i], CallWidth, CallHeight)

\* y below the last row, without and with the gap of pipeline.rs.
BelowLastRow == IF rows = <<>> THEN 0 ELSE Last(rows).y + Last(rows).height

\* C5: a key of the glyph map stays in the map with its entry unchanged
\* (same pixel rect, same UV rect) over every step, and a lookup of such a
\* key returns exactly that entry.
C5_StableEntry ==
    [][/\ \A k \in DOMAIN glyphs :
             /\ k \in DOMAIN glyphs'
             /\ EntryOf(rows', glyphs', k) = EntryOf(rows, glyphs, k)
       /\ (IsLookup /\ cache_ret'.res = "Ok" /\ CallKey \in DOMAIN glyphs)
             => cache_ret'.pos = EntryOf(rows, glyphs, CallKey)]_vars

\* C5 witness: the first of two glyphs of one row is looked up again after
\* the second was inserted, and found.
C5_Witness ==
    /\ cache_ret.path = "hit"
    /\ lookups = 3
    /\ Len(rows) = 1
    /\ Len(rows[1].glyphs) = 2
    /\ glyphs[cache_ret.key] = <<0, 0>>

\* C6: across any sequence of lookups no key is rasterized more than once,
\* also after a lookup of the key that failed for lack of atlas space.
C6_RasterOnce == \A k \in DOMAIN rasterized : rasterized[k] <= 1

\* C6 witness: a lookup of a key has failed for lack of space after the key
\* was rasterized, and the key is not stored.
C6_Witness ==
    /\ cache_ret.path = "no_space"
    /\ cache_ret.key \notin DOMAIN glyphs
    /\ Count(rasterized, cache_ret.key) >= 1

\* C7: the slots allocated to two distinct entries never overlap, nor do the
\* pixel rectangles of their bitmaps, and distinct rows are disjoint in y.
C7_NoOverlap ==
    /\ \A k1, k2 \in DOMAIN alloc :
          k1 # k2 =>
            /\ Disjoint(alloc[k1], alloc[k2])
            /\ Disjoint(EntryOf(rows, glyphs, k1).cache_rect.rect,
                        EntryOf(rows, glyphs, k2).cache_rect.rect)
    /\ \A i, j \in 1..Len(rows) :
          i < j => rows[i].y + rows[i].height <= rows[j].y

\* C7 witness: three entries in two rows.
C7_Witness ==
    /\ Len(rows) = 2
    /\ Cardinality(DOMAIN alloc) = 3

\* C8: a lookup that needs a new row higher than the remaining atlas height
\* returns the OutOfSpace error and leaves rows and the glyph map as they
\* were.
C8_OutOfSpace ==
    [][(NeedsNewRow /\ AtlasHeight < BelowLastRow + RowGap(cache_impl) + CallHeight)
          => /\ cache_ret'.res = "OutOfSpace"
             /\ rows' = rows
             /\ glyphs' = glyphs]_vars

\* C8 witness: a lookup has failed for lack of space in an atlas that holds
\* rows.
C8_Witness ==
    /\ cache_ret.path = "no_space"
    /\ cache_ret.res = "MissingFont"
    /\ rows # <<>>

\* The second glyph of a row that held one glyph goes into the only row of
\* the atlas: the case of C9.
SecondOfFirstRow ==
    /\ IsLookup
    /\ Len(rows) = 1
    /\ Len(rows[1].glyphs) = 1
    /\ cache_ret'.path \notin { "no_glyph", "panic" }
    /\ CallKey \notin DOMAIN glyphs
    /\ CallHeight = rows[1].height
    /\ rows[1].width <= AtlasWidth
    /\ AtlasWidth - rows[1].width > CallWidth

-----------------------------------------------------------------------------
(* Claims on the layer's buckets, the frame submission and the depth counter *)
(* (specification Spec)                                                      *)

\* The layers differ in no bucket but the named one.
OnlyBucketChanged(l, m, bucket) == \A b \in DOMAIN l : b # bucket => l[b] = m[b]

\* The bucket of sequence `new` is `old` with one more element.
GrownByOne(old, new) == Len(new) = Len(old) + 1 /\ SubSeq(new, 1, Len(old)) = old

\* The mesh `new` is `old` with more vertices and indices; the added vertices.
MeshGrown(old, new) ==
    /\ Len(new.vertices) > Len(old.vertices)
    /\ SubSeq(new.vertices, 1, Len(old.vertices)) = old.vertices
    /\ SubSeq(new.indices, 1, Len(old.indices)) = old.indices
AddedVertices(old, new) ==
    { new.vertices[i] : i \in (Len(old.vertices) + 1)..Len(new.vertices) }

IsOpaque(item) == item.color[4] = 100
IsTransparent(item) == item.color[4] < 100

\* C11: a rectangle fill or a stroke recorded with alpha < 1.0 is added only
\* to the transparent bucket (transparent_quads / transparent_triangles), one
\* with alpha == 1.0 only to the opaque bucket (quads / triangles); the call
\* changes no other bucket, so no primitive is in both.
C11_Buckets ==
    [][ /\ (ret'.op = "fill" /\ layer' # layer) =>
              \/ /\ GrownByOne(layer.quads, layer'.quads)
                 /\ IsOpaque(Last(layer'.quads))
                 /\ OnlyBucketChanged(layer, layer', "quads")
              \/ /\ GrownByOne(layer.transparent_quads, layer'.transparent_quads)
                 /\ IsTransparent(Last(layer'.transparent_quads))
                 /\ OnlyBucketChanged(layer, layer', "transparent_quads")
        /\ ret'.op = "stroke" =>
              \/ /\ MeshGrown(layer.triangles, layer'.triangles)
                 /\ \A v \in AddedVertices(layer.triangles, layer'.triangles) : IsOpaque(v)
                 /\ OnlyBucketChanged(layer, layer', "triangles")
              \/ /\ MeshGrown(layer.transparent_triangles, layer'.transparent_triangles)
                 /\ \A v \in AddedVertices(layer.transparent_triangles,
                                            layer'.transparent_triangles) : IsTransparent(v)
                 /\ OnlyBucketChanged(layer, layer', "transparent_triangles")
      ]_vars

\* Fills and strokes of both kinds of colour have been recorded.
C11_Witness ==
    /\ ret.op \in { "fill", "stroke" }
    /\ layer.quads # <<>> /\ layer.transparent_quads # <<>>
    /\ layer.transparent_triangles.vertices # <<>>

\* The order of submission the buckets are documented to have.
BucketOrder ==
    << "quads", "triangles", "texts", "svgs", "color_texts", "transparent_quads",
       "blurred_quads", "transparent_triangles" >>
BucketPosition(b) == CHOOSE i \in 1..Len(BucketOrder) : BucketOrder[i] = b

\* The draw call was handed no element.
EmptyCall(call) ==
    IF call.pass.bucket \in { "triangles", "transparent_triangles" }
    THEN call.items.vertices = <<>>
    ELSE call.items = <<>>

C14_LayerReset == [][ ret'.op = "finish" => layer' = LayerNew ]_vars

\* A second finish() has submitted the draw calls of the first frame again.
C14_Witness ==
    /\ ret.op = "finish"
    /\ Len(submitted) = 2
    /\ submitted[1] # <<>>
    /\ submitted[2] = submitted[1]

\* The elements recorded by the step in the buckets of fill, stroke and
\* blurred_rect, and in those of draw_text and draw_svg.
NewIn(bucket) ==
    { layer'[bucket][i] : i \in (Len(layer[bucket]) + 1)..Len(layer'[bucket]) }
NewVerticesIn(bucket) ==
    { layer'[bucket].vertices[i] :
        i \in (Len(layer[bucket].vertices) + 1)..Len(layer'[bucket].vertices) }
NewShapes ==
    NewIn("quads") \cup NewIn("transparent_quads") \cup NewIn("blurred_quads")
      \cup NewVerticesIn("triangles") \cup NewVerticesIn("transparent_triangles")
NewTexInstances == NewIn("texts") \cup NewIn("color_texts") \cup NewIn("svgs")

\* The depths along a bucket are strictly increasing.
Increasing(items) ==
    \A i, j \in 1..Len(items) : i < j => items[i].depth < items[j].depth

\* C15: the depth counter is 0 in a new context; stroke, fill and
\* blurred_rect increment it by one and record the incremented value; the
\* other operations leave it unchanged, and text and icon instances record
\* its current value; so the depths recorded by successive fill, stroke and
\* blurred_rect calls are strictly increasing.
C15_Depth ==
    /\ depth = 0
    /\ [][ /\ ret'.op \in { "fill", "stroke", "blurred_rect" } =>
                 /\ depth' = depth + 1
                 /\ \A it \in NewShapes : it.depth = depth'
           /\ ret'.op \notin { "fill", "stroke", "blurred_rect" } =>
                 /\ depth' = depth
                 /\ NewShapes = {}
           /\ \A it \in NewTexInstances : it.depth = depth
         ]_vars
    /\ [](/\ Increasing(layer.quads)
          /\ Increasing(layer.transparent_quads)
          /\ Increasing(layer.blurred_quads)
          /\ \A q \in { layer.quads[i] : i \in 1..Len(layer.quads) } :
               \A t \in { layer.transparent_quads[i] : i \in 1..Len(layer.transparent_quads) } :
                 q.depth # t.depth)

\* Two fills around a text: the quads carry 1 and 2, the text carries 1.
C15_Witness ==
    /\ depth = 2
    /\ Len(layer.quads) + Len(layer.transparent_quads) = 2
    /\ Len(layer.texts) = 1 /\ layer.texts[1].depth = 1

\* The draw call with its elements in another order.
Permuted(call, perm) ==
    [call EXCEPT !.items = [ i \in 1..Len(call.items) |-> call.items[perm[i]] ]]

\* The frame with the elements of its opaque quads in another order.
PermutedFrame(calls, perm) ==
    [ i \in 1..Len(calls) |->
        IF calls[i].pass.bucket = "quads" THEN Permuted(calls[i], perm) ELSE calls[i] ]

\* The opaque quads of a frame, and those of them that cover the pixel, in
\* the order of recording.
OpaqueQuads(calls) ==
    LET qs == SelectSeq(calls, LAMBDA c : c.pass.bucket = "quads")
    IN  IF qs = <<>> THEN <<>> ELSE qs[1].items
OpaqueQuadsAt(calls, p) ==
    SelectSeq(OpaqueQuads(calls), LAMBDA q : InRect(q.rect, p) /\ ClipPasses(q.clip, p))

\* C13: of overlapping opaque fills of one frame, the one recorded later
\* (with the larger depth) is the one shown in the overlap, in whatever order
\* the fills reach the GPU: the depth test is LEQUAL on the mapped z and the
\* depth buffer is cleared to the far value.
C13_LaterOpaqueVisible ==
    \A f \in 1..Len(submitted) : \A p \in Pixels :
        LET calls == submitted[f]
            over  == OpaqueQuadsAt(calls, p)
        IN  over # <<>> =>
              \A perm \in Permutations(1..Len(OpaqueQuads(calls))) :
                  LET px == Composite(PermutedFrame(calls, perm), p)
                  IN  /\ px.stack # <<>>
                      /\ px.stack[1].bucket = "quads"
                      /\ px.stack[1].item = over[Len(over)]
                      /\ \A i \in 1..(Len(over) - 1) : over[i].depth < over[Len(over)].depth

\* A submitted frame with two opaque fills over the same pixel.
C13_Witness ==
    \E f \in 1..Len(submitted) : \E p \in Pixels :
        /\ Len(OpaqueQuadsAt(submitted[f], p)) >= 2
        /\ OpaqueQuadsAt(submitted[f], p)[1] # OpaqueQuadsAt(submitted[f], p)[2]

\* All fragments of a frame at a pixel.
RECURSIVE FragmentsOfFrame(_, _)
FragmentsOfFrame(calls, p) ==
    IF calls = <<>> THEN {}
    ELSE { Fragments(calls[1], p)[i] : i \in 1..Len(Fragments(calls[1], p)) }
           \cup FragmentsOfFrame(SubSeq(calls, 2, Len(calls)), p)

\* The order of recording, as far as the recorded depths tell it: fill,
\* stroke and blurred_rect record the counter after incrementing it, text and
\* icons record the counter as it is.
IsTexBucket(b) == b \in { "texts", "svgs", "color_texts" }
RecordedBefore(a, b) ==
    \/ a.item.depth < b.item.depth
    \/ a.item.depth = b.item.depth /\ ~IsTexBucket(a.bucket) /\ IsTexBucket(b.bucket)

\* b lies over a in the pixel's colour, if a contributes to it at all.
Over(stack, a, b) ==
    \A i \in 1..Len(stack) : stack[i] = a => \E j \in (i + 1)..Len(stack) : stack[j] = b

\* C19: of two overlapping primitives of one frame, in whatever buckets, the
\* composite shows the later recorded one over the earlier one; a transparent
\* quad recorded before a text is not blended on top of that text.
C19_LaterOnTop ==
    \A f \in 1..Len(submitted) : \A p \in Pixels :
        LET stack == Composite(submitted[f], p).stack
            frags == FragmentsOfFrame(submitted[f], p)
        IN  \A a, b \in frags : RecordedBefore(a, b) => Over(stack, a, b)

\* A transparent quad recorded before a text over the same pixel ends on
\* top of the text.
C19_Witness ==
    \E f \in 1..Len(submitted) : \E p \in Pixels :
        LET stack == Composite(submitted[f], p).stack
        IN  /\ Len(stack) = 2
            /\ stack[1].bucket = "texts"
            /\ stack[2].bucket = "transparent_quads"
            /\ stack[2].item.depth <= stack[1].item.depth

\* The rectangle in global coordinates: the bounding box of the images of
\* its corners under the affine map.
AffinePoint(t, x, y) == << t[1] * x + t[3] * y + t[5], t[2] * x + t[4] * y + t[6] >>
SetMin(S) == CHOOSE m \in S : \A n \in S : m <= n
SetMax(S) == CHOOSE m \in S : \A n \in S : m >= n
GlobalRect(r, t) ==
    LET pts == { AffinePoint(t, x, y) : x \in { r[1], r[3] }, y \in { r[2], r[4] } }
        xs  == { q[1] : q \in pts }
        ys  == { q[2] : q \in pts }
    IN  << SetMin(xs), SetMin(ys), SetMax(xs), SetMax(ys) >>

\* Rectangle a, as a set of points, is contained in rectangle b.
RectEmpty(a) == a[1] >= a[3] \/ a[2] >= a[4]
RectContained(a, b) ==
    RectEmpty(a) \/ (b[1] <= a[1] /\ b[2] <= a[2] /\ a[3] <= b[3] /\ a[4] <= b[4])

\* The rectangle handed to clip() by the rectangular shape of ClipShapes.
ClipRectOf(t) == GlobalRect(RectShape(2, 2, 12, 12).rect, t)

\* C20: clip(shape) with a rectangle pushes one entry on clip_stack, the
\* rectangle in global coordinates intersected with the clip active before
\* (the rectangle itself when none is), so that the active clip is contained
\* in the one beneath it, and adds 1 to the top frame's n_clip; with another
\* shape it leaves clip_stack, every n_clip and cur_transform unchanged.
C20_ClipPush ==
    [][ ret'.op = "clip" =>
          \/ /\ Len(clip_stack') = Len(clip_stack) + 1
             /\ SubSeq(clip_stack', 1, Len(clip_stack)) = clip_stack
             /\ Last(clip_stack') =
                  IF clip_stack = <<>> THEN ClipRectOf(cur_transform)
                  ELSE RectIntersect(ClipRectOf(cur_transform), Last(clip_stack))
             /\ clip_stack # <<>> => RectContained(Last(clip_stack'), Last(clip_stack))
             /\ state_stack' =
                  IF state_stack = <<>> THEN state_stack
                  ELSE [state_stack EXCEPT ![Len(state_stack)].n_clip = @ + 1]
             /\ cur_transform' = cur_transform
          \/ UNCHANGED <<clip_stack, state_stack, cur_transform>>
      ]_vars

\* A rectangle has been clipped under a scaling transform: the entry pushed
\* is not the rectangle's image under the transform.
C20_Witness ==
    /\ ret.op = "clip"
    /\ cur_transform[1] = 2
    /\ clip_stack # <<>>
    /\ Last(clip_stack) = <<2, 2, 12, 12>>
    /\ ClipRectOf(cur_transform) = <<4, 4, 24, 24>>

-----------------------------------------------------------------------------
(* Claim on the failures of the glyph caches (specification SpecAtlas) *)

\* C16: an atlas allocation, glyph lookup or rasterization failure is
\* returned as an error value and never raised as a panic; it degrades only
\* the draw it happens in.
C16_NoPanic == ~panicked /\ cache_ret.res \in { "Ok", "MissingFont" }

\* The cache of text.rs has panicked on a glyph found in a fallback font,
\* which has no entry in piet_fonts.
C16_Witness ==
    /\ cache_impl = "text"
    /\ panicked
    /\ fallback.loaded
    /\ cache_ret.key.font_id >= Len(piet_fonts)
    /\ rows = <<>>

-----------------------------------------------------------------------------
(* Claims on the GPU buffers and the icon store (specification SpecRenderer) *)

\* C17: before every write of n elements into a vertex, index, instance or
\* primitive buffer the buffer has room for at least n elements, and all n
\* elements are written, none dropped or cut off.
C17_AllWritten ==
    \A i \in 1..Len(upload) :
        upload[i].capacity >= upload[i].n /\ upload[i].written = upload[i].n

\* More instances than MAX_INSTANCES were handed to the text pipeline.
C17_Witness ==
    \E i \in 1..Len(upload) :
        /\ upload[i].buffer = "tex_instances"
        /\ upload[i].n = MAX_INSTANCES + 1
        /\ upload[i].capacity = MAX_INSTANCES

\* C18: the icon store builds the mesh of an icon at most once per content
\* hash; a later request with the same hash returns the stored data without
\* tessellating again, and a stored entry is never replaced.
C18_BuiltOnce ==
    /\ [](\A h \in DOMAIN tessellated : tessellated[h] <= 1)
    /\ [][ /\ \A h \in DOMAIN svgs : h \in DOMAIN svgs' /\ svgs'[h] = svgs[h]
           /\ (svg_calls' # svg_calls /\ svg_ret'.hash \in DOMAIN svgs) =>
                 /\ svg_ret'.data = svgs[svg_ret'.hash]
                 /\ tessellated' = tessellated
         ]_vars

\* A stored icon has been requested again.
C18_Witness ==
    /\ svg_calls = 3
    /\ Cardinality(DOMAIN svgs) = 2
    /\ svg_ret.hash \in DOMAIN svgs
    /\ svg_ret.data = svgs[svg_ret.hash]

-----------------------------------------------------------------------------
(* Claims on transforms and recorded coordinates (specification Spec) *)

\* C21: transform(t) sets cur_transform to cur_transform composed with t and
\* changes the captured transform of no saved frame; whenever state_stack is
\* not empty, its top frame has transform * rel_transform = cur_transform.
C21_Transform ==
    /\ [][ ret'.op = "transform" =>
             /\ \E t \in Transforms : cur_transform' = AffineMul(cur_transform, t)
             /\ Len(state_stack') = Len(state_stack)
             /\ \A i \in 1..Len(state_stack) :
                   state_stack'[i].transform = state_stack[i].transform
         ]_vars
    /\ [](state_stack # <<>> =>
            AffineMul(Last(state_stack).transform, Last(state_stack).rel_transform)
              = cur_transform)

\* A transform inside a frame saved under another transform, and a
\* transform after the restore of an inner frame.
C21_Witness ==
    /\ ret.op = "transform"
    /\ state_stack # <<>>
    /\ Last(state_stack).transform # AffineIdentity
    /\ Last(state_stack).rel_transform # AffineIdentity

\* The rectangles handed to fill(), to draw_svg() and (with the position
\* added) to draw_text(), in global coordinates.
FillRectOf(t) == GlobalRect(RectShape(0, 0, 5, 5).rect, t)
SvgRectOf(t) == GlobalRect(<<0, 0, 4, 4>>, t)
TextRectOf(t) == GlobalRect(<<1, 1, 5, 5>>, t)

\* C22: every quad, text instance and icon recorded in the layer stores
\* the image of the input geometry under the cur_transform in effect at the
\* call, for every affine cur_transform, and the clip rectangle active at
\* the call.
C22_GlobalCoordinates ==
    [][ /\ ret'.op = "fill" =>
             \A q \in NewIn("quads") \cup NewIn("transparent_quads") :
                 q.rect = FillRectOf(cur_transform) /\ q.clip = CurrentClip(clip_stack)
        /\ ret'.op = "draw_svg" =>
             \A q \in NewIn("svgs") :
                 q.rect = SvgRectOf(cur_transform) /\ q.clip = CurrentClip(clip_stack)
        /\ ret'.op = "draw_text" =>
             \A q \in NewIn("texts") :
                 q.rect = TextRectOf(cur_transform) /\ q.clip = CurrentClip(clip_stack)
      ]_vars

\* A rectangle filled under a scaling transform is recorded unscaled.
C22_Witness ==
    /\ ret.op = "fill"
    /\ cur_transform = <<2, 0, 0, 2, 0, 0>>
    /\ layer.quads # <<>>
    /\ Last(layer.quads).rect = <<0, 0, 5, 5>>
    /\ FillRectOf(cur_transform) = <<0, 0, 10, 10>>

\* The closure leaves as many frames as it found: it calls no restore.
Balanced(f) == \A i \in 1..Len(f.ops) : f.ops[i] # "restore"

\* C23: with_save(f) pushes a frame, runs f and always calls restore, also
\* when f returned an error: for f balanced in its own save and restore,
\* state_stack, cur_transform and clip_stack are afterwards what they were
\* before the call; the result is f's error when f failed, else the result
\* of restore.
C23_WithSave ==
    [][ ret'.op = "with_save" =>
          /\ Balanced(ret'.f) =>
                /\ state_stack' = state_stack
                /\ cur_transform' = cur_transform
                /\ clip_stack' = clip_stack
                /\ ret'.res = IF ret'.f.res # "Ok" THEN ret'.f.res ELSE "Ok"
          /\ ret'.f.res # "Ok" => ret'.res = ret'.f.res
          /\ (ret'.f.res = "Ok" /\ ret'.res # "Ok") =>
                ret'.res = "StackUnbalance" /\ state_stack' = <<>>
      ]_vars

\* with_save has returned the error of a closure that clipped, inside a
\* frame that holds a clip of its own.
C23_Witness ==
    /\ ret.op = "with_save"
    /\ ret.res = "Err"
    /\ ret.f.ops = << "clip" >>
    /\ state_stack # <<>>
    /\ Last(state_stack).n_clip = 1

-----------------------------------------------------------------------------
(* Claims on the GL state of a frame submission and on Layer::reset *)

\* C24: during a frame submission, whatever the layer holds, blending is off
\* and depth write is on while the opaque buckets are submitted; depth write
\* is off and blending is on from the coverage glyphs through the icons,
\* colour glyphs, transparent quads, blurred quads and transparent meshes;
\* when the submission returns blending is off and depth write is on.
C24_PassProtocol ==
    /\ gl_log # <<>> =>
          /\ Len(gl_log) = Len(BucketOrder)
          /\ \A i \in 1..Len(gl_log) :
                /\ gl_log[i].bucket = BucketOrder[i]
                /\ gl_log[i].depth_test
                /\ gl_log[i].bucket \in { "quads", "triangles" } =>
                      ~gl_log[i].blend /\ gl_log[i].depth_mask
                /\ gl_log[i].bucket \notin { "quads", "triangles" } =>
                      gl_log[i].blend /\ ~gl_log[i].depth_mask
                /\ gl_log[i].blend = Passes[i].blend
                /\ gl_log[i].depth_mask = Passes[i].depth_mask
    /\ ~gl_state.blend
    /\ gl_state.depth_mask

\* Two frames have been submitted, the second with nothing but a text in
\* the layer, so that most buckets are empty.
C24_Witness ==
    /\ ret.op = "finish"
    /\ Len(submitted) = 2
    /\ Len(submitted[2]) = 1
    /\ submitted[2][1].pass.bucket = "texts"
    /\ Len(gl_log) = 8

\* C25: Layer::reset empties every one of the eight buckets (specification
\* SpecLayer).
C25_ResetEmpties == [][ ret'.op = "reset" => layer' = LayerNew ]_vars

\* After a reset the layer still holds an icon and a colour glyph, while
\* the quads recorded with them are gone.
C25_Witness ==
    /\ ret.op = "reset"
    /\ layer.svgs # <<>>
    /\ layer.color_texts # <<>>
    /\ LayerReset(layer) = layer

-----------------------------------------------------------------------------
(* Claims on the row scan of the glyph caches (specification SpecAtlas) *)

\* The call of this step places a glyph that is not cached, or fails to.
IsPlacement ==
    /\ IsLookup
    /\ cache_ret'.path \in { "row", "new_row", "no_space" }
    /\ CallKey \notin DOMAIN glyphs

\* The row has room for a slot of width gw: the width left is sufficient.
Room(row, gw) == row.width + gw <= AtlasWidth
Qualifies(row, gw, gh) == row.height = gh /\ Room(row, gw)
Qualifying == { i \in 1..Len(rows) : Qualifies(rows[i], CallWidth, CallHeight) }

\* The step appended a glyph to row i.
PlacedIn(i) == Len(rows') = Len(rows) /\ Len(rows'[i].glyphs) = Len(rows[i].glyphs) + 1

\* C26: the scan goes from the most recently created row to the oldest and
\* places the bitmap in the first row of exactly the bitmap's height that
\* has room; a row of another height is never used, and a new row is started
\* only when no row qualifies.
C26_RowScan ==
    [][ IsPlacement =>
          /\ \A i \in 1..Len(rows) : PlacedIn(i) => rows[i].height = CallHeight
          /\ IF Qualifying # {}
             THEN PlacedIn(SetMax(Qualifying))
             ELSE rows' = rows \/ (Len(rows') = Len(rows) + 1 /\ cache_ret'.path = "new_row")
      ]_vars

\* A glyph has been appended to a row that was already wider than the atlas.
C26_Witness ==
    /\ cache_ret.path = "row"
    /\ cache_ret.key \in DOMAIN alloc
    /\ alloc[cache_ret.key][1] > AtlasWidth

\* A row of the slot's height whose remaining width is exactly the slot's.
ExactFit(row, gw, gh) == row.height = gh /\ row.width + gw = AtlasWidth

\* C27: a bitmap whose width equals the remaining width of a row of matching
\* height is placed in that row, filling it completely, and starts no new
\* row.
C27_ExactFit ==
    [][ (/\ IsPlacement
         /\ \E i \in 1..Len(rows) : ExactFit(rows[i], CallWidth, CallHeight)
         /\ \A i \in 1..Len(rows) : ~RowTakes(rows[i], CallWidth, CallHeight))
        => \E i \in 1..Len(rows) :
              /\ ExactFit(rows[i], CallWidth, CallHeight)
              /\ PlacedIn(i)
              /\ rows'[i].width = AtlasWidth
      ]_vars

\* Two rows of one height whose widths add up to the atlas width: the second
\* glyph would have filled the first row.
C27_Witness ==
    /\ cache_ret.path = "new_row"
    /\ Len(rows) = 2
    /\ rows[1].height = rows[2].height
    /\ Len(rows[2].glyphs) = 1
    /\ rows[1].width + rows[2].width = AtlasWidth

-----------------------------------------------------------------------------
(* Claims on fills (specification Spec) *)

\* The step added one quad to exactly one of the two quad buckets, or one
\* mesh to exactly one of the two triangle buckets, and changed nothing else.
FillRecorded ==
    \/ GrownByOne(layer.quads, layer'.quads)
          /\ OnlyBucketChanged(layer, layer', "quads")
    \/ GrownByOne(layer.transparent_quads, layer'.transparent_quads)
          /\ OnlyBucketChanged(layer, layer', "transparent_quads")
    \/ MeshGrown(layer.triangles, layer'.triangles)
          /\ OnlyBucketChanged(layer, layer', "triangles")
    \/ MeshGrown(layer.transparent_triangles, layer'.transparent_triangles)
          /\ OnlyBucketChanged(layer, layer', "transparent_triangles")

\* C28: every fill, of a rectangle or of any other shape, adds geometry to
\* exactly one of the opaque and the transparent buckets; no fill is dropped.
C28_FillRecorded ==
    [][ ret'.op \in { "fill", "fill_even_odd" } => FillRecorded ]_vars

\* A fill has returned Ok and used up a depth while the layer holds nothing.
C28_Witness ==
    /\ ret.op = "fill"
    /\ ret.res = "Ok"
    /\ depth = 1
    /\ layer = LayerNew

-----------------------------------------------------------------------------
(* Claims on the resolution of glyphs (specification SpecAtlas) *)

\* The glyph a character resolves to in a family: that of the family's font,
\* else that of the first fallback font, in load order, that has one.
FallbacksHaving(c) ==
    { i \in 1..Len(FallbackFonts) : GlyphForChar(FallbackFonts[i], c) # 0 }
ExpectedGlyph(impl, c, family) ==
    LET primary == NewFont(impl, family)
        first   == FallbackFonts[SetMin(FallbacksHaving(c))]
    IN  IF GlyphForChar(primary, c) # 0
        THEN [ok |-> TRUE, font |-> primary, glyph_id |-> GlyphForChar(primary, c)]
        ELSE IF FallbacksHaving(c) # {}
        THEN [ok |-> TRUE, font |-> first, glyph_id |-> GlyphForChar(first, c)]
        ELSE [ok |-> FALSE, font |-> "none", glyph_id |-> 0]

\* The step is a call get_glyph_pos(c, family, ..) of a cache with a fallback
\* chain, for a family that has a font.
Resolves(c, family) ==
    /\ cache_impl \in { "text", "pipeline" }
    /\ NewFont(cache_impl, family) # "none"
    /\ \E fs \in FontSizes, checked \in BOOLEAN : GetGlyphPos(c, family, fs, checked)

-----------------------------------------------------------------------------
(* Claims on the capacity of the GPU buffers (specification SpecRenderer) *)

\* The buffers that grow, and the capacity each had before the step.
GrowingBuffers == { "tri_vertices", "tri_indices", "vertices", "indices" }
CapacityBefore(buffer) ==
    CASE buffer = "tri_vertices" -> buffers.tri_vertices
      [] buffer = "tri_indices"  -> buffers.tri_indices
      [] buffer = "vertices"     -> buffers.supported_vertices
      [] buffer = "indices"      -> buffers.supported_indices

\* C30: binding a vertex or index buffer for n elements reallocates it only
\* when n exceeds its capacity, and then to a capacity of at least n; no
\* capacity ever decreases, so a draw that needs no more than an earlier one
\* reallocates nothing.
C30_CapacityMonotone ==
    [][ /\ \A i \in 1..Len(upload') :
              upload'[i].buffer \in GrowingBuffers =>
                LET n   == upload'[i].n
                    old == CapacityBefore(upload'[i].buffer)
                    new == upload'[i].capacity
                IN  /\ n <= old => new = old
                    /\ n > old => new >= n
                    /\ new >= old
        /\ buffers'.tri_vertices >= buffers.tri_vertices
        /\ buffers'.tri_indices >= buffers.tri_indices
        /\ buffers'.supported_vertices >= buffers.supported_vertices
        /\ buffers'.supported_indices >= buffers.supported_indices
        /\ buffers'.tex_instances = buffers.tex_instances
        /\ buffers'.blur_instances = buffers.blur_instances
      ]_vars

\* A draw of three vertices after one that made the vertex buffer grow: the
\* buffer keeps the larger capacity.
C30_Witness ==
    /\ upload # <<>>
    /\ upload[1].buffer = "tri_vertices"
    /\ upload[1].n = 3
    /\ upload[1].capacity = VERTEX_BUFFER_SIZE + 1
    /\ buffers.tri_vertices = VERTEX_BUFFER_SIZE + 1

-----------------------------------------------------------------------------
(* Claims on the bounds of the atlas (specification SpecAtlas) *)

\* C31: every row is at most as wide as the atlas and every allocated
\* rectangle lies inside [0, AtlasWidth] x [0, AtlasHeight], so that
\* self.width - row.width never underflows.
C31_RowsInside ==
    /\ \A i \in 1..Len(rows) : rows[i].width <= AtlasWidth
    /\ \A k \in DOMAIN alloc :
          /\ 0 <= alloc[k][1] /\ alloc[k][3] <= AtlasWidth
          /\ 0 <= alloc[k][2] /\ alloc[k][4] <= AtlasHeight

\* A glyph wider than the atlas has started a row of its own width.
C31_Witness ==
    \E i \in 1..Len(rows) :
        /\ rows[i].width > AtlasWidth
        /\ Len(rows[i].glyphs) = 1

-----------------------------------------------------------------------------
(* Claims on the display scale (specification SpecAtlas) *)

\* The logical size a cache without entries gives the glyph at the scale
\* `sc`: its size in pixels divided by the scale.
FreshWidth(sc) == RealWidth(fonts', CallKey) \div EffectiveScale(cache_impl, sc)
FreshHeight(sc) == RealHeight(fonts', CallKey) \div EffectiveScale(cache_impl, sc)
RectWidth(r) == r[3] - r[1]
RectHeight(r) == r[4] - r[2]

\* C32: the position a lookup returns has the logical size a fresh cache
\* would give at the current scale, whatever set_scale calls and lookups
\* came before.
C32_ScaleIndependent ==
    [][ (IsLookup /\ cache_ret'.res = "Ok") =>
          /\ RectWidth(cache_ret'.pos.rect) = FreshWidth(scale)
          /\ RectHeight(cache_ret'.pos.rect) = FreshHeight(scale)
          /\ cache_ret'.pos.width = FreshWidth(scale)
      ]_vars

\* A lookup has hit an entry whose logical size was computed at another
\* scale than the current one.
C32_Witness ==
    /\ cache_ret.path = "hit"
    /\ cache_ret.res = "Ok"
    /\ RectWidth(cache_ret.pos.rect) * EffectiveScale(cache_impl, scale)
         # RectWidth(cache_ret.pos.cache_rect.rect)

-----------------------------------------------------------------------------
(* Claims on the font tables of text.rs (specification SpecAtlas) *)

\* C33: fonts and piet_fonts have the same length and hold the same font at
\* every index, and the font id of every cached glyph and of every resolved
\* character is an index into both.
C33_FontTables ==
    cache_impl = "text" =>
        /\ Len(fonts) = Len(piet_fonts)
        /\ \A i \in 1..Min(Len(fonts), Len(piet_fonts)) : fonts[i] = piet_fonts[i]
        /\ \A k \in DOMAIN glyphs : k.font_id < Len(fonts) /\ k.font_id < Len(piet_fonts)
        /\ \A k \in DOMAIN glyph_infos :
              glyph_infos[k][1] < Len(fonts) /\ glyph_infos[k][1] < Len(piet_fonts)

\* A glyph of a fallback font has been rasterized from the font that a
\* family, added after the fallback fonts, has put at its index of piet_fonts.
C33_Witness ==
    /\ cache_impl = "text"
    /\ ~panicked
    /\ cache_ret.res = "Ok"
    /\ fallback.loaded
    /\ cache_ret.key.font_id >= fallback.start
    /\ cache_ret.key.font_id < fallback.end
    /\ cache_ret.key.font_id < Len(piet_fonts)
    /\ At(piet_fonts, cache_ret.key.font_id) # At(fonts, cache_ret.key.font_id)

-----------------------------------------------------------------------------
(* Claims on the depth of the recorded primitives (specification Spec) *)

\* The depth values recorded in a layer, or handed over in a draw call.
SeqDepths(items) == { items[i].depth : i \in 1..Len(items) }
LayerDepths(l) ==
    SeqDepths(l.quads) \cup SeqDepths(l.transparent_quads) \cup SeqDepths(l.blurred_quads)
      \cup SeqDepths(l.texts) \cup SeqDepths(l.color_texts) \cup SeqDepths(l.svgs)
      \cup SeqDepths(l.triangles.vertices) \cup SeqDepths(l.transparent_triangles.vertices)
CallDepths(call) ==
    IF call.pass.bucket \in { "triangles", "transparent_triangles" }
    THEN SeqDepths(call.items.vertices)
    ELSE SeqDepths(call.items)

\* C34: every depth recorded in the layer is at least 0 and at most the
\* depth counter, and every draw call of finish() is handed a max_depth that
\* no depth of its items exceeds.
C34_DepthBounded ==
    /\ \A d \in LayerDepths(layer) : 0 <= d /\ d <= depth
    /\ \A i \in 1..Len(submitted) : \A j \in 1..Len(submitted[i]) :
          \A d \in CallDepths(submitted[i][j]) :
              0 <= d /\ d <= submitted[i][j].max_depth

\* A frame has been submitted whose icon has depth 0 and whose blurred
\* rectangle has the depth handed over as max_depth.
C34_Witness ==
    /\ ret.op = "finish"
    /\ Len(submitted) = 1
    /\ layer.svgs # <<>>
    /\ layer.svgs[1].depth = 0
    /\ layer.blurred_quads # <<>>
    /\ Last(layer.blurred_quads).depth = depth
    /\ \A j \in 1..Len(submitted[1]) : submitted[1][j].max_depth = depth

-----------------------------------------------------------------------------
(* Claims on the clip of the recorded primitives (specification SpecClip) *)

\* The items a step added to a bucket.
AddedItems(old, new) == { new[i] : i \in (Len(old) + 1)..Len(new) }
AddedToLayer ==
    AddedItems(layer.quads, layer'.quads)
      \cup AddedItems(layer.transparent_quads, layer'.transparent_quads)
      \cup AddedItems(layer.texts, layer'.texts)

\* C35: a primitive recorded while a clip is active never carries the clip
\* [0, 0, 0, 0], the value recorded when no clip is active.
C35_ClipDistinct ==
    [][ clip_stack # <<>> => \A item \in AddedToLayer : item.clip # NoClip ]_vars

\* A quad has been recorded under two nested clips, with the clip value of
\* no clip.
C35_Witness ==
    /\ ret.op = "fill"
    /\ Len(clip_stack) = 2
    /\ clip_stack[1] # NoClip
    /\ layer.quads # <<>>
    /\ Last(layer.quads).clip = NoClip

-----------------------------------------------------------------------------
(* Claims on the path converter (specification SpecPath) *)

\* After the first n events a sub-path is open: the last Begin or End among
\* them is a Begin.
RECURSIVE SubPathOpen(_, _)
SubPathOpen(events, n) ==
    IF n = 0 THEN FALSE
    ELSE IF events[n].kind = "Begin" THEN TRUE
    ELSE IF events[n].kind = "End" THEN FALSE
    ELSE SubPathOpen(events, n - 1)

\* The iterator has returned None.
PathDone == path_ret = NoEvent

\* C36: in the events of a path that starts with MoveTo, a Begin comes only
\* when no sub-path is open, a Line, Cubic or End only when one is open, and
\* no sub-path is open when the iterator has returned None; the iterator
\* returns at most two events per segment and one more.
C36_WellFormed ==
    /\ \A i \in 1..Len(path_events) :
          IF path_events[i].kind = "Begin"
          THEN ~SubPathOpen(path_events, i - 1)
          ELSE SubPathOpen(path_events, i - 1)
    /\ PathDone => ~SubPathOpen(path_events, Len(path_events))
    /\ Len(path_events) <= 2 * Len(path_iter.data) + 1

\* The converter has finished a path whose ClosePath is followed by a LineTo
\* or CurveTo: the segment's event lies outside every sub-path.
C36_Witness ==
    /\ PathDone
    /\ \E i \in 2..Len(path_events) :
          /\ path_events[i].kind \in { "Line", "Cubic" }
          /\ path_events[i - 1].kind = "End"
          /\ path_events[i - 1].close

\* The point a Begin, Line or Cubic event ends at.
EventTo(ev) == IF ev.kind = "Begin" THEN ev.at ELSE ev.to

\* C37: a Line or Cubic event starts where the event before it in the
\* sub-path ends (the Begin's at, or the to of the segment before), and an
\* End event's last is the point the sub-path's last segment ends at.
C37_Connected ==
    \A i \in 2..Len(path_events) :
        path_events[i - 1].kind \in { "Begin", "Line", "Cubic" } =>
            /\ path_events[i].kind \in { "Line", "Cubic" } =>
                  path_events[i].from = EventTo(path_events[i - 1])
            /\ (path_events[i].kind = "End" /\ path_events[i - 1].kind # "Begin") =>
                  path_events[i].last = EventTo(path_events[i - 1])

\* The converter has finished the path MoveTo, LineTo: the line starts at
\* the origin and not at the point of the MoveTo.
C37_Witness ==
    /\ PathDone
    /\ Len(path_events) = 3
    /\ path_events[1].kind = "Begin"
    /\ path_events[2].kind = "Line"
    /\ path_events[2].from = <<0, 0>>
    /\ path_events[1].at # <<0, 0>>
    /\ path_events[3].kind = "End"

-----------------------------------------------------------------------------
(* Claims on draw_text (specification SpecClip) *)

\* The rectangle moved by a position and by the translation of a transform.
MovedRect(r, pos, t) ==
    << r[1] + pos[1] + t[5], r[2] + pos[2] + t[6], r[3] + pos[1] + t[5], r[4] + pos[2] + t[6] >>

\* C38: draw_text(layout, pos) appends to texts one instance per instance of
\* the layout, in order, each the layout's instance moved by pos and by the
\* translation of cur_transform, with the current depth and the current
\* clip; with an empty layout it appends nothing.  It changes no instance
\* recorded before, no other bucket, and not depth, cur_transform,
\* clip_stack or state_stack.
C38_DrawText ==
    [][ \A l \in TextLayouts, pos \in LayoutPositions :
          DrawText(l, pos) =>
            /\ Len(layer'.texts) = Len(layer.texts) + Len(l)
            /\ SubSeq(layer'.texts, 1, Len(layer.texts)) = layer.texts
            /\ \A i \in 1..Len(l) :
                  LET tex == layer'.texts[Len(layer.texts) + i]
                  IN  /\ tex.rect = MovedRect(l[i].rect, pos, cur_transform)
                      /\ tex.tex_rect = l[i].tex_rect
                      /\ tex.color = l[i].color
                      /\ tex.depth = depth
                      /\ tex.clip = CurrentClip(clip_stack)
            /\ OnlyBucketChanged(layer, layer', "texts")
            /\ UNCHANGED <<depth, cur_transform, clip_stack, state_stack, primitives>>
      ]_vars

\* One layout has been drawn at two positions, the second time under a clip:
\* the layer holds two copies, one at each position.
C38_Witness ==
    /\ ret.op = "draw_text"
    /\ Len(layer.texts) = 2
    /\ layer.texts[1].rect = MovedRect(LayoutInstance.rect, <<1, 1>>, AffineIdentity)
    /\ layer.texts[2].rect = MovedRect(LayoutInstance.rect, <<3, 2>>, AffineIdentity)
    /\ layer.texts[1].clip = NoClip
    /\ layer.texts[2].clip # NoClip

-----------------------------------------------------------------------------
(* Claims on the tab stops of a monospace layout (specification SpecLayout) *)

\* C39: in a monospace layout with tab_width >= 1 a tab advances the column
\* count by between 1 and tab_width columns, to a multiple of tab_width;
\* every other character advances it by its display width.
C39_TabStops ==
    [][ mono_layout'.chars # mono_layout.chars =>
          LET advance == mono_layout'.mono_char_widths - mono_layout.mono_char_widths
          IN  /\ mono_layout.tab_width >= 1
              /\ advance = layout_ret'.char_width
              /\ IF layout_ret'.c = "tab"
                 THEN /\ 1 <= advance /\ advance <= mono_layout.tab_width
                      /\ mono_layout'.mono_char_widths % mono_layout.tab_width = 0
                 ELSE advance = UnicodeWidth(layout_ret'.c)
      ]_vars

\* A tab after a wide character and a letter, with a tab stop every four
\* columns: the tab is one column wide.
C39_Witness ==
    /\ mono_layout.tab_width = 4
    /\ layout_ret.c = "tab"
    /\ layout_ret.char_width = 1
    /\ mono_layout.mono_char_widths = 4
    /\ mono_layout.chars = 3

=============================================================================
